---- MODULE Spec2Model ----
(***************************************************************************)
(* Model of the VOID image processor (src/js/imageProcessor.js), its       *)
(* effect pipeline, the hybrid CPU/GPU dispatcher (tryGPURender), the      *)
(* debounced render scheduling, the parameter-automation loop (Animator)    *)
(* and the frame-by-frame video export; and of DitherEffect and           *)
(* HalftoneEffect as functions of a raster and their parameters.           *)
(*                                                                         *)
(* Parameter values are JavaScript values written as strings ("true",      *)
(* "false", "floyd", "4", ...) so that a key can hold values of different  *)
(* JavaScript types, as it does when the LFO writes a number to a boolean  *)
(* key.  A raster is the sequence of effect ids whose output it carries,   *)
(* in the order in which they were applied to the source frame.            *)
(***************************************************************************)
EXTENDS Integers, Sequences, FiniteSets, TLC

VARIABLES
    phase,          \* "empty" | "loading" | "ready": file load progress of the active processor
    sourceType,     \* ImageProcessor.sourceType: "image" | "video"
    state,          \* ImageProcessor.state: effect id -> (key -> value)
    useGPU,         \* ImageProcessor.useGPU
    glManager,      \* ImageProcessor.glManager: "null" | "ok" | "unsupported"
    effectBuild,    \* "src": effect modules as in src/ ; "gpu": with the GPU members the dispatcher calls
    renderTimeout,  \* TRUE while the 30 ms timer of requestRender is pending
    rafPending,     \* animation-frame callbacks registered by fired timers, not yet run
    videoPaused,    \* videoElement.paused
    vfcPending,     \* renderVideo callbacks registered for the next video frame
    animPlaying,    \* Animator.isPlaying
    automations,    \* Animator.automations: set of <<effect id, key>> targets
    animPending,    \* Animator.loop callbacks registered for the next animation frame
    exporter,       \* VideoExporter.render: isProcessing, stopFlag and the position of the call
    canvasSize,     \* size of processor.canvas: "preview" | "full"
    gpuCanvasSize,  \* size of processor.gpuCanvas: "default" | "preview" | "full"
    exportLog,      \* what the most recent export did
    lastRun,        \* what the most recent pipeline run did
    hist,           \* history of the session: acceleration failures, retries, unrendered changes
    dither,         \* a raster handed to DitherEffect, its parameters and the passes made on it
    halftone,       \* HalftoneEffect's scale, the source width and the passes made by each caller
    grid,           \* a raster handed to HalftoneEffect, the dots drawn for it and the canvas left
    audio           \* AudioProcessor: the buffer, isPlaying, isPaused and pauseTime

sessionVars == <<phase, sourceType, state, useGPU, glManager, effectBuild, renderTimeout,
                 rafPending, videoPaused, vfcPending, animPlaying, automations, animPending,
                 exporter, canvasSize, gpuCanvasSize, exportLog, lastRun, hist>>

effectVars == <<dither, halftone, grid, audio>>

vars == <<sessionVars, effectVars>>

(***************************************************************************)
(* Bounds of the model.                                                    *)
(***************************************************************************)
MaxRaf == 1
MaxChain == 2
MaxAnimLoops == 1
TotalFrames == 3
SessionFrames == 1

(***************************************************************************)
(* The pipeline and the effects' default parameter sets.                   *)
(***************************************************************************)
PipelineDitherFirst == <<"preprocess_v1", "dither_v1", "halftone_v1", "glitch_v1">>

Pipeline == <<"preprocess_v1", "halftone_v1", "dither_v1", "glitch_v1">>

EffectIds == {Pipeline[i] : i \in 1..Len(Pipeline)}

PreProcessParams ==
    [enabled |-> "true", blurRadius |-> "0", sharpenAmount |-> "0", noiseAmount |-> "0",
     levelBlack |-> "0", levelWhite |-> "255", gamma |-> "1.0", saturation |-> "100",
     brightness |-> "0", hue |-> "0", invert |-> "false"]

HalftoneParams ==
    [enabled |-> "false", scale |-> "4", angleC |-> "15", angleM |-> "75",
     angleY |-> "0", angleK |-> "45", opacity |-> "0.8"]

DitherParams ==
    [enabled |-> "true", resolution |-> "1.0", algorithm |-> "floyd", resampling |-> "nearest",
     renderMode |-> "tonal", colorShadow |-> "#000000", colorMid |-> "#808080",
     colorHighlight |-> "#ffffff", colorSpace |-> "indexed", indexedCount |-> "16",
     contrast |-> "0", spread |-> "1.0", bleeding |-> "0.0", roundness |-> "0.0",
     knockout |-> "false"]

\* GlitchEffect.js is not among the sources; its keys are those the Animator's
\* comment names ("glitch_v1.rgbShift") plus the enabled flag the dispatcher reads.
GlitchParams == [enabled |-> "false", rgbShift |-> "0"]

EffectParams(e) ==
    CASE e = "preprocess_v1" -> PreProcessParams
      [] e = "halftone_v1" -> HalftoneParams
      [] e = "dither_v1" -> DitherParams
      [] e = "glitch_v1" -> GlitchParams

\* JavaScript truthiness of a parameter value.
Truthy(v) == v \notin {"false", "0", ""}

ErrDiffAlgos == {"floyd", "atkinson", "sierra"}
PatternAlgos == {"bayer4", "bayer8", "modulation", "stitched"}
Algorithms == {"none"} \cup ErrDiffAlgos \cup PatternAlgos

\* this.state after the constructor: a copy of every effect's params.
ConstructorState == [e \in EffectIds |-> EffectParams(e)]

\* this.state[e][k] = v : an assignment adds the key when it is absent.
SetParamReplace(st, e, k, v) == [st EXCEPT ![e] = (k :> v)]

SetParam(st, e, k, v) == [st EXCEPT ![e] = (k :> v) @@ st[e]]

\* A property read of an object: undefined when the key is absent.
Get(st, e, k) == IF k \in DOMAIN st[e] THEN st[e][k] ELSE "undefined"

Enabled(st, e) == Truthy(Get(st, e, "enabled")) /\ Get(st, e, "enabled") # "undefined"

(***************************************************************************)
(* A pipeline run: ret is what the dispatcher returned ("true", "false",   *)
(* "threw"; "cpu" for the sequential forEach over the pipeline), ev the    *)
(* operations in execution order (<<"cpu", effect>> for effect.process,    *)
(* <<"gpu", effect>> for a draw with the effect's program, <<"gl", op>>    *)
(* for upload / copy / drawback), canvas the raster left on the target.    *)
(***************************************************************************)
NoRun == [kind |-> "none", ret |-> "none", ev |-> <<>>, canvas |-> <<>>]

\* effect.process(ctx, w, h, params, scale): every effect returns at once when disabled.
process(e, st, r) ==
    IF Enabled(st, e)
    THEN [r EXCEPT !.ev = Append(@, <<"cpu", e>>), !.canvas = Append(@, e)]
    ELSE r

\* this.pipeline.forEach(effect => effect.process(...)) from position i on.
RECURSIVE forEachProcess(_, _, _, _)
forEachProcess(pl, st, i, r) ==
    IF i > Len(pl) THEN r ELSE forEachProcess(pl, st, i + 1, process(pl[i], st, r))

\* The sequential path: background drawn, then the whole pipeline in order.
CPUPipeline(st) ==
    forEachProcess(Pipeline, st, 1, [ret |-> "cpu", ev |-> <<>>, canvas |-> <<>>])

activeEffects(st) == {e \in EffectIds : Enabled(st, e)}

\* The GPU members tryGPURender calls on the effect objects (isGPUSupported,
\* shaderSource, getUniforms).  DitherEffect and HalftoneEffect as they stand in
\* src/ define none of them; build "gpu" stands for effect modules that do.
HasGPUMembers(build) == build = "gpu"

\* dither.isGPUSupported(params): the ordered/pattern algorithms qualify,
\* the error-diffusion ones never do.
isGPUSupported(p) == "algorithm" \in DOMAIN p /\ p["algorithm"] \in PatternAlgos

useHalftone(st) == Enabled(st, "halftone_v1")

useDitherNoCapabilityCheck(st, build) == Enabled(st, "dither_v1")

\* dither && enabled && dither.isGPUSupported && dither.isGPUSupported(params):
\* a missing isGPUSupported member makes the conjunction falsy.
useDither(st, build) ==
    /\ Enabled(st, "dither_v1")
    /\ HasGPUMembers(build)
    /\ isGPUSupported(st["dither_v1"])

copyBackNever(uH, uD) == FALSE

\* The copy of the drawn framebuffer into TEXTURE0 (copyTexImage2D) after the
\* halftone draw: only in the branch useHalftone && useDither.
copyBack(uH, uD) == uH /\ uD

\* The branch taken when neither stage goes to the GPU: dither (if enabled) and
\* glitch (if enabled) through their process functions, then return true.
CPURest(st, r1) ==
    LET rd == IF Enabled(st, "dither_v1") THEN process("dither_v1", st, r1) ELSE r1
        rg == IF Enabled(st, "glitch_v1") THEN process("glitch_v1", st, rd) ELSE rd
    IN [rg EXCEPT !.ret = "true"]

\* The GPU pass: upload the canvas as TEXTURE0, one draw per program, the
\* result drawn back to the canvas, glitch afterwards on the CPU.  A call of a
\* member the effect object does not define (getUniforms) throws a TypeError.
GPUPass(st, build, r1, uH, uD) ==
    LET tex0 == r1.canvas
        ev0 == Append(r1.ev, <<"gl", "upload">>)
        hThrows == uH /\ ~HasGPUMembers(build)
        fbH == IF uH THEN Append(tex0, "halftone_v1") ELSE tex0
        evH == IF uH THEN Append(ev0, <<"gpu", "halftone_v1">>) ELSE ev0
        cp == copyBack(uH, uD)
        tex1 == IF cp THEN fbH ELSE tex0
        evC == IF cp THEN Append(evH, <<"gl", "copy">>) ELSE evH
        dThrows == uD /\ ~HasGPUMembers(build)
        fbD == IF uD THEN Append(tex1, "dither_v1") ELSE fbH
        evD == IF uD THEN Append(evC, <<"gpu", "dither_v1">>) ELSE evC
        back == [ret |-> "true", ev |-> Append(evD, <<"gl", "drawback">>), canvas |-> fbD]
    IN IF hThrows THEN [ret |-> "threw", ev |-> ev0, canvas |-> r1.canvas]
       ELSE IF dThrows THEN [ret |-> "threw", ev |-> evC, canvas |-> r1.canvas]
       ELSE IF Enabled(st, "glitch_v1") THEN process("glitch_v1", st, back)
       ELSE back

\* if (!this.useGPU || !this.glManager) return false;
gpuGuard(uGPU, glm) == uGPU /\ glm # "null"

\* ImageProcessor.tryGPURender(source, scaleFactor); c0 is the canvas on entry.
tryGPURender(uGPU, glm, st, build, c0) ==
    IF ~gpuGuard(uGPU, glm) THEN [ret |-> "false", ev |-> <<>>, canvas |-> c0]
    ELSE IF activeEffects(st) = {} THEN [ret |-> "false", ev |-> <<>>, canvas |-> c0]
    ELSE LET r0 == [ret |-> "true", ev |-> <<>>, canvas |-> <<>>]
             r1 == IF Enabled(st, "preprocess_v1") THEN process("preprocess_v1", st, r0) ELSE r0
             uH == useHalftone(st)
             uD == useDither(st, build)
         IN IF ~uH /\ ~uD THEN CPURest(st, r1) ELSE GPUPass(st, build, r1, uH, uD)

\* ImageProcessor.render() once originalImage is set.
renderImage(uGPU, glm, st, build) ==
    LET g == tryGPURender(uGPU, glm, st, build, <<>>)
    IN IF g.ret # "false" THEN g ELSE CPUPipeline(st)

\* The frame part of ImageProcessor.renderVideo() (video playing).
renderVideoFrame(uGPU, glm, st, build) ==
    IF uGPU /\ glm # "null" THEN tryGPURender(uGPU, glm, st, build, <<>>)
    ELSE CPUPipeline(st)

\* The DRAW & PROCESS part of one frame of VideoExporter.render.
exportVideoFrame(uGPU, glm, st, build) ==
    IF uGPU THEN tryGPURender(uGPU, glm, st, build, <<>>)
    ELSE CPUPipeline(st)

\* exportSeparations: the pipeline without glitch_v1.
separationPipeline(st) ==
    forEachProcess(SubSeq(Pipeline, 1, 3), st, 1, [ret |-> "cpu", ev |-> <<>>, canvas |-> <<>>])

WithKind(run, kind) == [kind |-> kind, ret |-> run.ret, ev |-> run.ev, canvas |-> run.canvas]

\* Some stage of the run was drawn by the GPU.
UsedParallel(run) == \E i \in 1..Len(run.ev) : run.ev[i][1] = "gpu"

(***************************************************************************)
(* The session.  The model follows STATE.activeProcessor: a file load      *)
(* constructs a new ImageProcessor, and the timers, frame callbacks and    *)
(* loops of the processor it replaces act on the replaced object only.     *)
(***************************************************************************)

\* The controls the model operates: <<effect id, key, value>> as delivered to
\* the onChange callback of generateUI.
Controls == {<<"halftone_v1", "enabled", v>> : v \in {"true", "false"}}

\* The automation target of a new LFO (select.value: the first key of the
\* first effect) and the values Math.abs(val) the loop writes to it.
LFOTargets == {<<"preprocess_v1", "enabled">>}
LFOValues == {"0", "5"}

\* setupPreview: the preview canvas is at most maxPreview pixels a side.
maxPreview == 960
PreviewPixels == maxPreview * maxPreview

\* The size above which exportResult asks before it allocates.
ConfirmLimit == 50000000

\* The pixel counts an export raster is tried with.
PixelCounts == {PreviewPixels, ConfirmLimit, ConfirmLimit + 1}

ResizeModes == {"original", "screen", "custom"}

\* Progress is reported, and the event loop yielded to, every fifth frame.
YieldEvery == 5

IdleExporter ==
    [isProcessing |-> FALSE, stopFlag |-> FALSE, pos |-> "idle", frame |-> 0, total |-> 0,
     format |-> "webm", resizeNeeded |-> FALSE, original |-> "preview"]

\* The record of the last export: what was asked, allocated, run and
\* downloaded; for a video export also the frames encoded, the frame in
\* progress when cancel() was first called (-1: never), and the canvas sizes
\* before the export and when VideoExporter.render settled.
NoExport ==
    [kind |-> "none", result |-> "none", pixels |-> 0, prompted |-> FALSE, allocated |-> 0,
     ran |-> FALSE, downloaded |-> FALSE, alerted |-> FALSE, total |-> 0, frames |-> <<>>,
     cancelledAt |-> -1, width |-> "preview", preCanvas |-> "preview", preGpu |-> "default",
     canvasAfter |-> "preview", gpuAfter |-> "default"]

\* this.gpuCanvas.width = this.canvas.width at the head of the GPU pass.
gpuCanvasAfter(run, gsz, csz) ==
    IF \E i \in 1..Len(run.ev) : run.ev[i] = <<"gl", "upload">> THEN csz ELSE gsz

NoHist ==
    [gpuFailed |-> FALSE, retried |-> FALSE, parallelAfterFail |-> FALSE, dirty |-> FALSE,
     refused |-> FALSE]

\* The history after a pipeline run that read the current parameter state.
Ran(h, run) ==
    [h EXCEPT !.dirty = FALSE,
              !.parallelAfterFail = @ \/ (h.gpuFailed /\ UsedParallel(run))]

\* No raster has been handed to the dither effect on its own, and no
\* halftone pass has been recorded.
IdleDither ==
    [params |-> [renderMode |-> "tonal"], w |-> 0, source |-> <<>>, prev |-> <<>>,
     data |-> <<>>, passes |-> 0, powLow |-> FALSE,
     ww |-> 0, work |-> <<>>, out |-> <<>>, knocked |-> <<>>, threw |-> FALSE]

IdleHalftone == [scale |-> 2 * 4, natural |-> 0, passes |-> {}]

IdleGrid ==
    [w |-> 0, h |-> 0, raster |-> <<>>, scale |-> 2 * 4, scaleFactor |-> <<1, 1>>,
     opacity |-> 8, done |-> FALSE, step |-> <<0, 1>>, iterations |-> 0, dots |-> {},
     canvas |-> <<>>]

\* AudioProcessor's constructor: no buffer, speed 1.0 (in tenths), times in
\* hundredths of a second.  startTime is written by the rewind and forward
\* buttons and read nowhere, and is left out.
IdleAudio ==
    [loaded |-> FALSE, duration |-> 0, speed |-> 10, isPlaying |-> FALSE, isPaused |-> FALSE,
     pauseTime |-> 0, threw |-> FALSE, last |-> "none"]

Constructed ==
    /\ phase = "empty"
    /\ sourceType = "image"
    /\ state = ConstructorState
    /\ useGPU = TRUE
    /\ glManager = "null"
    /\ effectBuild = "src"
    /\ renderTimeout = FALSE
    /\ rafPending = 0
    /\ videoPaused = TRUE
    /\ vfcPending = 0
    /\ animPlaying = FALSE
    /\ automations = {}
    /\ animPending = 0
    /\ exporter = IdleExporter
    /\ canvasSize = "preview"
    /\ gpuCanvasSize = "default"
    /\ exportLog = NoExport
    /\ lastRun = NoRun
    /\ hist = NoHist

Init == Constructed /\ dither = IdleDither /\ halftone = IdleHalftone /\ grid = IdleGrid /\ audio = IdleAudio

\* requestRender(): nothing while the animator plays; otherwise the pending
\* timer is cleared and a new 30 ms timer is set.
requestRender(playing, pending) == IF playing THEN pending ELSE TRUE

\* handleFile -> initImageMode / initVideoMode: new ImageProcessor(canvas),
\* then loadImage / loadVideo up to the asynchronous load.
HandleFile(t) ==
    /\ exportLog' = NoExport
    /\ UNCHANGED effectVars
    /\ UNCHANGED canvasSize
    /\ t \in {"image", "video"}
    /\ phase' = "loading"
    /\ sourceType' = t
    /\ state' = ConstructorState
    /\ useGPU' = TRUE
    /\ glManager' = "null"
    /\ renderTimeout' = FALSE
    /\ rafPending' = 0
    /\ videoPaused' = TRUE
    /\ vfcPending' = 0
    /\ animPlaying' = FALSE
    /\ automations' = {}
    /\ animPending' = 0
    /\ exporter' = IdleExporter
    /\ lastRun' = NoRun
    /\ gpuCanvasSize' = "default"
    /\ hist' = [hist EXCEPT !.dirty = FALSE]
    /\ UNCHANGED effectBuild

\* renderVideo() called with the video paused or not, pending callbacks n and
\* history h: the guard, the frame, the resubmission.
renderVideo(paused, uGPU, glm, n, h) ==
    IF paused
    THEN /\ lastRun' = lastRun
         /\ gpuCanvasSize' = gpuCanvasSize
         /\ vfcPending' = n
         /\ hist' = h
    ELSE LET run == renderVideoFrame(uGPU, glm, state, effectBuild)
         IN /\ lastRun' = WithKind(run, "renderVideo")
            /\ gpuCanvasSize' = gpuCanvasAfter(run, gpuCanvasSize, canvasSize')
            /\ vfcPending' = IF run.ret = "threw" THEN n ELSE n + 1
            /\ hist' = Ran(h, run)

\* img.onload / video.onloadedmetadata: setupPreview, initSystem (generateUI,
\* new Animator, controls, initWebGL, requestRender); a video then plays and
\* renderVideo starts.  supported is WebGLManager.isSupported.
OnLoad(supported) ==
    /\ canvasSize' = "preview"
    /\ UNCHANGED effectVars
    /\ UNCHANGED exportLog
    /\ phase = "loading"
    /\ phase' = "ready"
    /\ useGPU' = supported
    /\ glManager' = IF supported THEN "ok" ELSE "unsupported"
    /\ renderTimeout' = requestRender(FALSE, renderTimeout)
    /\ LET h == [hist EXCEPT !.retried = @ \/ hist.gpuFailed,
                             !.gpuFailed = @ \/ ~supported]
       IN IF sourceType = "video"
          THEN /\ videoPaused' = FALSE
               /\ renderVideo(FALSE, useGPU', glManager', vfcPending, h)
          ELSE /\ hist' = h
               /\ UNCHANGED <<videoPaused, vfcPending, lastRun, gpuCanvasSize>>
    /\ UNCHANGED <<sourceType, state, effectBuild, rafPending, animPlaying, automations,
                   animPending, exporter>>

\* The onChange callback of a pipeline control: the write, then requestRender.
\* A control reports a change of its value.
OnChange(e, k, v) ==
    /\ UNCHANGED effectVars
    /\ UNCHANGED <<canvasSize, exportLog>>
    /\ phase = "ready"
    /\ <<e, k, v>> \in Controls
    /\ Get(state, e, k) # v
    /\ state' = SetParam(state, e, k, v)
    /\ renderTimeout' = requestRender(animPlaying, renderTimeout)
    /\ hist' = [hist EXCEPT !.dirty = TRUE]
    /\ UNCHANGED <<phase, sourceType, useGPU, glManager, effectBuild, rafPending, videoPaused,
                   vfcPending, animPlaying, automations, animPending, exporter, lastRun, gpuCanvasSize>>

\* The BACKGROUND select: backgroundMode = v; requestRender().
BackgroundChange ==
    /\ UNCHANGED effectVars
    /\ UNCHANGED <<canvasSize, exportLog>>
    /\ phase = "ready"
    /\ renderTimeout' = requestRender(animPlaying, renderTimeout)
    /\ UNCHANGED <<phase, sourceType, state, useGPU, glManager, effectBuild, rafPending,
                   videoPaused, vfcPending, animPlaying, automations, animPending, exporter,
                   lastRun, gpuCanvasSize, hist>>

\* The 30 ms timer fires: requestAnimationFrame(callback).
TimerFire ==
    /\ UNCHANGED effectVars
    /\ UNCHANGED <<canvasSize, exportLog>>
    /\ renderTimeout
    /\ rafPending < MaxRaf
    /\ renderTimeout' = FALSE
    /\ rafPending' = rafPending + 1
    /\ UNCHANGED <<phase, sourceType, state, useGPU, glManager, effectBuild, videoPaused,
                   vfcPending, animPlaying, automations, animPending, exporter, lastRun, gpuCanvasSize, hist>>

\* render() of the active processor: nothing without originalImage (a video
\* source has none), else tryGPURender and the sequential fallback.
render(h) ==
    IF sourceType = "video"
    THEN /\ lastRun' = lastRun
         /\ gpuCanvasSize' = gpuCanvasSize
         /\ hist' = h
    ELSE LET run == renderImage(useGPU, glManager, state, effectBuild)
         IN /\ lastRun' = WithKind(run, "render")
            /\ gpuCanvasSize' = gpuCanvasAfter(run, gpuCanvasSize, canvasSize)
            /\ hist' = Ran(h, run)

\* The animation-frame callback of requestRender.
RafFire ==
    /\ UNCHANGED effectVars
    /\ UNCHANGED <<canvasSize, exportLog>>
    /\ rafPending > 0
    /\ rafPending' = rafPending - 1
    /\ IF sourceType = "video"
       THEN /\ videoPaused \/ vfcPending < MaxChain
            /\ renderVideo(videoPaused, useGPU, glManager, vfcPending, hist)
       ELSE /\ render(hist)
            /\ UNCHANGED vfcPending
    /\ UNCHANGED <<phase, sourceType, state, useGPU, glManager, effectBuild, renderTimeout,
                   videoPaused, animPlaying, automations, animPending, exporter>>

\* A callback registered by renderVideo fires for the next frame.
VideoFrameCallback ==
    /\ UNCHANGED effectVars
    /\ UNCHANGED <<canvasSize, exportLog>>
    /\ vfcPending > 0
    /\ renderVideo(videoPaused, useGPU, glManager, vfcPending - 1, hist)
    /\ UNCHANGED <<phase, sourceType, state, useGPU, glManager, effectBuild, renderTimeout,
                   rafPending, videoPaused, animPlaying, automations, animPending, exporter>>

\* The PAUSE / PLAY button of a video source.
TogglePlay ==
    /\ UNCHANGED effectVars
    /\ UNCHANGED <<canvasSize, exportLog>>
    /\ phase = "ready"
    /\ sourceType = "video"
    /\ IF videoPaused
       THEN /\ vfcPending < MaxChain
            /\ videoPaused' = FALSE
            /\ renderVideo(FALSE, useGPU, glManager, vfcPending, hist)
       ELSE /\ videoPaused' = TRUE
            /\ UNCHANGED <<vfcPending, lastRun, gpuCanvasSize, hist>>
    /\ UNCHANGED <<phase, sourceType, state, useGPU, glManager, effectBuild, renderTimeout,
                   rafPending, animPlaying, automations, animPending, exporter>>

\* Animator.loop(): nothing unless playing; every automation writes its value
\* v to its target, processor.render() runs, the loop registers itself for
\* the next animation frame.  n is the number of registrations before the call.
loop(playing, autos, v, n) ==
    IF ~playing
    THEN /\ state' = state
         /\ lastRun' = lastRun
         /\ gpuCanvasSize' = gpuCanvasSize
         /\ hist' = hist
         /\ animPending' = n
    ELSE /\ state' = IF autos = {} THEN state
                     ELSE LET t == CHOOSE a \in autos : TRUE
                          IN SetParam(state, t[1], t[2], v)
         /\ IF sourceType = "video"
            THEN /\ lastRun' = lastRun
                 /\ gpuCanvasSize' = gpuCanvasSize
                 /\ hist' = hist
                 /\ animPending' = n + 1
            ELSE LET run == renderImage(useGPU, glManager, state', effectBuild)
                 IN /\ lastRun' = WithKind(run, "render")
                    /\ gpuCanvasSize' = gpuCanvasAfter(run, gpuCanvasSize, canvasSize)
                    /\ hist' = Ran(hist, run)
                    /\ animPending' = IF run.ret = "threw" THEN n ELSE n + 1

\* The checkbox of the ANIMATION STATION group: isPlaying = enabled; loop().
AnimToggle(enabled, v) ==
    /\ UNCHANGED effectVars
    /\ UNCHANGED <<canvasSize, exportLog>>
    /\ phase = "ready"
    /\ enabled \in BOOLEAN
    /\ v \in LFOValues
    /\ ~enabled \/ animPending < MaxAnimLoops
    /\ animPlaying' = enabled
    /\ loop(enabled, automations, v, animPending)
    /\ UNCHANGED <<phase, sourceType, useGPU, glManager, effectBuild, renderTimeout, rafPending,
                   videoPaused, vfcPending, automations, exporter>>

\* The "+ ADD LFO" button: a new automation; the loop starts unless it plays.
AddLFO(t, v) ==
    /\ UNCHANGED effectVars
    /\ UNCHANGED <<canvasSize, exportLog>>
    /\ phase = "ready"
    /\ t \in LFOTargets
    /\ v \in LFOValues
    /\ animPlaying \/ animPending < MaxAnimLoops
    /\ automations' = automations \cup {t}
    /\ animPlaying' = TRUE
    /\ IF animPlaying
       THEN UNCHANGED <<state, lastRun, gpuCanvasSize, hist, animPending>>
       ELSE loop(TRUE, automations', v, animPending)
    /\ UNCHANGED <<phase, sourceType, useGPU, glManager, effectBuild, renderTimeout, rafPending,
                   videoPaused, vfcPending, exporter>>

\* The animation-frame callback of Animator.loop.
AnimatorFrame(v) ==
    /\ UNCHANGED effectVars
    /\ UNCHANGED <<canvasSize, exportLog>>
    /\ animPending > 0
    /\ v \in LFOValues
    /\ loop(animPlaying, automations, v, animPending - 1)
    /\ UNCHANGED <<phase, sourceType, useGPU, glManager, effectBuild, renderTimeout, rafPending,
                   videoPaused, vfcPending, animPlaying, automations, exporter>>

\* w * h of an export raster: the preview canvas for the quick export and the
\* 'screen' mode, else the image's natural size or the custom size.
exportPixels(usePreviewRes, resizeMode, naturalPx, customPx) ==
    IF usePreviewRes \/ resizeMode = "screen" THEN PreviewPixels
    ELSE IF resizeMode = "original" THEN naturalPx
    ELSE customPx

\* if (w * h > 50000000 && !usePreviewRes) confirm(...)
exportResultPrompt(px, usePreviewRes) == px > ConfirmLimit /\ ~usePreviewRes

ImageExport(kind, px, prompted, done) ==
    [NoExport EXCEPT !.kind = kind, !.pixels = px, !.prompted = prompted,
                     !.result = IF done THEN "done" ELSE "declined",
                     !.allocated = IF done THEN px ELSE 0,
                     !.ran = done, !.downloaded = done]

ExportResultAdjustingParams(usePreviewRes, resizeMode, naturalPx, customPx, confirmed) ==
    /\ phase = "ready"
    /\ UNCHANGED effectVars
    /\ sourceType = "image"
    /\ lastRun' = WithKind(CPUPipeline(state), "exportResult")
    /\ state' = SetParam(state, "halftone_v1", "scale", "scaled")
    /\ UNCHANGED <<phase, sourceType, useGPU, glManager, effectBuild, renderTimeout,
                   rafPending, videoPaused, vfcPending, animPlaying, automations, animPending,
                   exporter, hist, canvasSize, gpuCanvasSize, exportLog>>

\* exportResult(usePreviewRes): the size, the confirmation above 50 MP, the
\* pipeline re-run sequentially on an export canvas, the download.
ExportResult(usePreviewRes, resizeMode, naturalPx, customPx, confirmed) ==
    /\ phase = "ready"
    /\ UNCHANGED effectVars
    /\ sourceType = "image"
    /\ LET px == exportPixels(usePreviewRes, resizeMode, naturalPx, customPx)
           prompt == exportResultPrompt(px, usePreviewRes)
       IN IF prompt /\ ~confirmed
          THEN /\ exportLog' = ImageExport("image", px, TRUE, FALSE)
               /\ UNCHANGED lastRun
          ELSE /\ exportLog' = ImageExport("image", px, prompt, TRUE)
               /\ lastRun' = WithKind(CPUPipeline(state), "exportResult")
    /\ UNCHANGED <<phase, sourceType, state, useGPU, glManager, effectBuild, renderTimeout,
                   rafPending, videoPaused, vfcPending, animPlaying, automations, animPending,
                   exporter, hist, canvasSize, gpuCanvasSize>>

\* exportSeparations(): needs the dither engine enabled; a canvas of the
\* image's natural size, the pipeline without glitch, the zip download.
ExportSeparations(naturalPx) ==
    /\ phase = "ready"
    /\ UNCHANGED effectVars
    /\ sourceType = "image"
    /\ Enabled(state, "dither_v1")
    /\ exportLog' = ImageExport("separations", naturalPx, FALSE, TRUE)
    /\ lastRun' = WithKind(separationPipeline(state), "exportSeparations")
    /\ UNCHANGED <<phase, sourceType, state, useGPU, glManager, effectBuild, renderTimeout,
                   rafPending, videoPaused, vfcPending, animPlaying, automations, animPending,
                   exporter, hist, canvasSize, gpuCanvasSize>>

loopHeadIgnoringStop(ex, i) ==
    IF i < ex.total
    THEN [ex EXCEPT !.frame = i, !.pos = "seek"]
    ELSE [ex EXCEPT !.frame = i, !.pos = "flush"]

\* for (let i = ...; i < totalFrames; i++) { if (this.stopFlag) break; ...
\* the head of the frame loop at index i: on to the seek of frame i, or out of
\* the loop to the Finish part.
loopHead(ex, i) ==
    IF i < ex.total /\ ~ex.stopFlag
    THEN [ex EXCEPT !.frame = i, !.pos = "seek"]
    ELSE [ex EXCEPT !.frame = i, !.pos = "flush"]

\* finally of VideoExporter.render: the canvas gets its original size back
\* when the export resized it.
restoreCanvas(ex, size) == IF ex.resizeNeeded THEN ex.original ELSE size

\* finally of VideoExporter.render for the GPU canvas: set to the processor
\* canvas's original size when the export resized and a manager exists.
restoreGpuCanvas(ex, glm, size) ==
    IF ex.resizeNeeded /\ glm # "null" THEN ex.original ELSE size

\* VideoExporter.render settles (a blob, or catch: isProcessing = false and
\* the error rethrown; finally: sizes restored) and exportVideo goes on:
\* download or alert, then finally videoElement.play(); renderVideo().
\* gsz is the GPU canvas size, log the export record, run the frame just
\* processed (NoRun: none) when render settles.
Settle(ex, gsz, log, result, run) ==
    LET c == restoreCanvas(ex, canvasSize)
        g == restoreGpuCanvas(ex, glManager, gsz)
        frame == renderVideoFrame(useGPU, glManager, state, effectBuild)
    IN /\ vfcPending < MaxChain
       /\ exporter' = [IdleExporter EXCEPT !.stopFlag = ex.stopFlag]
       /\ exportLog' = [log EXCEPT !.result = result,
                                   !.downloaded = (result = "blob"),
                                   !.alerted = (result = "rejected"),
                                   !.canvasAfter = c, !.gpuAfter = g]
       /\ canvasSize' = c
       /\ gpuCanvasSize' = gpuCanvasAfter(frame, g, c)
       /\ videoPaused' = FALSE
       /\ lastRun' = WithKind(frame, "renderVideo")
       /\ vfcPending' = IF frame.ret = "threw" THEN vfcPending ELSE vfcPending + 1
       /\ hist' = Ran(IF run.ret = "none" THEN hist ELSE Ran(hist, run), frame)

\* The render goes on to its next await with exporter state ex, or, for a GIF
\* out of the loop, finishes at once (gif.finish() does not wait).
Proceed(ex, csz, gsz, log, run, paused) ==
    IF ex.pos = "flush" /\ ex.format = "gif"
    THEN Settle(ex, gsz, log, "blob", run)
    ELSE /\ exporter' = ex
         /\ exportLog' = log
         /\ canvasSize' = csz
         /\ gpuCanvasSize' = gsz
         /\ videoPaused' = paused
         /\ lastRun' = IF run.ret = "none" THEN lastRun ELSE WithKind(run, "exportVideo")
         /\ hist' = IF run.ret = "none" THEN hist ELSE Ran(hist, run)
         /\ UNCHANGED vfcPending

\* exportVideo -> VideoExporter.render up to its first await: isProcessing,
\* stopFlag reset, encoder setup, canvas resize, video.pause(), loop head.
\* width is the export width (the video's for a full-resolution export of a
\* video larger than the preview), total is floor(duration * fps).
ExportVideoStart(width, format, total, setupFails) ==
    /\ phase = "ready"
    /\ UNCHANGED effectVars
    /\ sourceType = "video"
    /\ ~exporter.isProcessing
    /\ LET log == [NoExport EXCEPT !.kind = "video", !.result = "running", !.total = total,
                                   !.width = width,
                                   !.preCanvas = canvasSize, !.preGpu = gpuCanvasSize,
                                   !.canvasAfter = canvasSize, !.gpuAfter = gpuCanvasSize]
           ex0 == [IdleExporter EXCEPT !.isProcessing = TRUE, !.total = total,
                                       !.format = format, !.original = canvasSize]
           resize == canvasSize # width
           ex1 == [ex0 EXCEPT !.resizeNeeded = resize]
           gsz == IF resize /\ glManager # "null" THEN width ELSE gpuCanvasSize
       IN IF setupFails
          THEN Settle(ex0, gpuCanvasSize, log, "rejected", NoRun)
          ELSE Proceed(loopHead(ex1, 0), width, gsz, log, NoRun, TRUE)
    /\ UNCHANGED <<phase, sourceType, state, useGPU, glManager, effectBuild, renderTimeout,
                   rafPending, animPlaying, automations, animPending>>

\* One frame of the export loop once its seek is done: draw and process,
\* encode; every fifth frame progress and a yield; else on to the loop head.
\* A frame that throws (fails: the draw, the read or the encoder) ends the
\* render through catch and finally.
ExportVideoFrame(fails) ==
    /\ exporter.isProcessing
    /\ UNCHANGED effectVars
    /\ exporter.pos = "seek"
    /\ LET run == exportVideoFrame(useGPU, glManager, state, effectBuild)
           i == exporter.frame
           gsz == gpuCanvasAfter(run, gpuCanvasSize, canvasSize)
           log == [exportLog EXCEPT !.frames = Append(@, i)]
       IN IF run.ret = "threw" \/ fails
          THEN Settle(exporter, gsz, exportLog, "rejected", run)
          ELSE IF i % YieldEvery = 0
          THEN Proceed([exporter EXCEPT !.pos = "yield"], canvasSize, gsz, log, run, videoPaused)
          ELSE Proceed(loopHead(exporter, i + 1), canvasSize, gsz, log, run, videoPaused)
    /\ UNCHANGED <<phase, sourceType, state, useGPU, glManager, effectBuild, renderTimeout,
                   rafPending, animPlaying, automations, animPending>>

\* The setTimeout(r, 0) of the yield fires: i++, loop head.
ExportVideoYield ==
    /\ exporter.isProcessing
    /\ UNCHANGED effectVars
    /\ exporter.pos = "yield"
    /\ Proceed(loopHead(exporter, exporter.frame + 1), canvasSize, gpuCanvasSize, exportLog,
               NoRun, videoPaused)
    /\ UNCHANGED <<phase, sourceType, state, useGPU, glManager, effectBuild, renderTimeout,
                   rafPending, animPlaying, automations, animPending>>

\* encoder.flush() settles: finalize, blob, isProcessing = false; or rejects.
ExportVideoFinish(flushFails) ==
    /\ exporter.isProcessing
    /\ UNCHANGED effectVars
    /\ exporter.pos = "flush"
    /\ Settle(exporter, gpuCanvasSize, exportLog,
              IF flushFails THEN "rejected" ELSE "blob", NoRun)
    /\ UNCHANGED <<phase, sourceType, state, useGPU, glManager, effectBuild, renderTimeout,
                   rafPending, animPlaying, automations, animPending>>

ExportVideoRefusedResettingStop ==
    /\ phase = "ready"
    /\ sourceType = "video"
    /\ exporter.isProcessing
    /\ hist' = [hist EXCEPT !.refused = TRUE]
    /\ exporter' = [exporter EXCEPT !.stopFlag = FALSE]
    /\ UNCHANGED effectVars
    /\ UNCHANGED <<phase, sourceType, state, useGPU, glManager, effectBuild, renderTimeout,
                   rafPending, videoPaused, vfcPending, animPlaying, automations, animPending,
                   canvasSize, gpuCanvasSize, exportLog, lastRun>>

\* An export button pressed while a render is in progress: exportVideo
\* returns at 'if (this.videoExporter.isProcessing) return', as render itself
\* would at 'if (this.isProcessing) return'.  Only the history notes the call.
ExportVideoRefused ==
    /\ phase = "ready"
    /\ sourceType = "video"
    /\ exporter.isProcessing
    /\ hist' = [hist EXCEPT !.refused = TRUE]
    /\ UNCHANGED effectVars
    /\ UNCHANGED <<phase, sourceType, state, useGPU, glManager, effectBuild, renderTimeout,
                   rafPending, videoPaused, vfcPending, animPlaying, automations, animPending,
                   exporter, canvasSize, gpuCanvasSize, exportLog, lastRun>>

\* VideoExporter.cancel(): stopFlag = true.
Cancel ==
    /\ phase = "ready"
    /\ UNCHANGED effectVars
    /\ exporter' = [exporter EXCEPT !.stopFlag = TRUE]
    /\ exportLog' = IF exporter.isProcessing /\ exportLog.cancelledAt = -1
                    THEN [exportLog EXCEPT !.cancelledAt = exporter.frame]
                    ELSE exportLog
    /\ UNCHANGED <<phase, sourceType, state, useGPU, glManager, effectBuild, renderTimeout,
                   rafPending, videoPaused, vfcPending, animPlaying, automations, animPending,
                   lastRun, hist, canvasSize, gpuCanvasSize>>

Next ==
    \/ \E t \in {"image", "video"} : HandleFile(t)
    \/ \E supported \in BOOLEAN : OnLoad(supported)
    \/ \E c \in Controls : OnChange(c[1], c[2], c[3])
    \/ BackgroundChange
    \/ TimerFire
    \/ RafFire
    \/ VideoFrameCallback
    \/ TogglePlay
    \/ \E b \in BOOLEAN, v \in LFOValues : AnimToggle(b, v)
    \/ \E t \in LFOTargets, v \in LFOValues : AddLFO(t, v)
    \/ \E v \in LFOValues : AnimatorFrame(v)
    \/ \E quick \in BOOLEAN : ExportResult(quick, "screen", PreviewPixels, PreviewPixels, TRUE)
    \/ ExportSeparations(PreviewPixels)
    \/ ExportVideoStart("preview", "webm", SessionFrames, FALSE)
    \/ ExportVideoFrame(FALSE)
    \/ ExportVideoYield
    \/ ExportVideoFinish(FALSE)

Spec == Init /\ [][Next]_vars

(***************************************************************************)
(* The scheduling the browser guarantees: a pending timer fires, a         *)
(* registered frame callback runs, a started load completes, an export     *)
(* proceeds frame by frame.  User actions are under no obligation.         *)
(***************************************************************************)
FairSpec ==
    /\ Spec
    /\ WF_vars(TimerFire)
    /\ WF_vars(RafFire)
    /\ WF_vars(VideoFrameCallback)
    /\ WF_vars(\E v \in LFOValues : AnimatorFrame(v))
    /\ WF_vars(\E supported \in BOOLEAN : OnLoad(supported))
    /\ WF_vars(ExportVideoFrame(FALSE))
    /\ WF_vars(ExportVideoYield)
    /\ WF_vars(ExportVideoFinish(FALSE))

(***************************************************************************)
(* The dispatcher on its whole input domain: a loaded processor whose      *)
(* parameter state holds any combination of the four enabled flags and any *)
(* dither algorithm, acceleration initialised or failed, effect modules of *)
(* either build, a render requested and its timer fired.  The actions are  *)
(* the session's render and export paths.                                  *)
(***************************************************************************)
Flags == {"true", "false"}

RenderStates ==
    {[e \in EffectIds |->
        IF e = "dither_v1"
        THEN [EffectParams(e) EXCEPT !["enabled"] = f["dither_v1"], !["algorithm"] = a]
        ELSE [EffectParams(e) EXCEPT !["enabled"] = f[e]]]
     : f \in [EffectIds -> Flags], a \in Algorithms}

InitRender ==
    /\ phase = "ready"
    /\ sourceType \in {"image", "video"}
    /\ state \in RenderStates
    /\ useGPU \in BOOLEAN
    /\ glManager = IF useGPU THEN "ok" ELSE "unsupported"
    /\ effectBuild \in {"src", "gpu"}
    /\ renderTimeout = FALSE
    /\ rafPending = 1
    /\ videoPaused = (sourceType = "image")
    /\ vfcPending = IF sourceType = "video" THEN 1 ELSE 0
    /\ animPlaying = FALSE
    /\ automations = {}
    /\ animPending = 0
    /\ exporter = IdleExporter
    /\ canvasSize = "preview"
    /\ gpuCanvasSize = "default"
    /\ exportLog = NoExport
    /\ lastRun = NoRun
    /\ hist = [NoHist EXCEPT !.gpuFailed = ~useGPU, !.dirty = TRUE]
    /\ dither = IdleDither
    /\ halftone = IdleHalftone
    /\ grid = IdleGrid /\ audio = IdleAudio

NextRender ==
    \/ RafFire
    \/ VideoFrameCallback
    \/ \E quick \in BOOLEAN : ExportResult(quick, "screen", PreviewPixels, PreviewPixels, TRUE)
    \/ ExportSeparations(PreviewPixels)
    \/ ExportVideoStart("preview", "webm", SessionFrames, FALSE)
    \/ ExportVideoFrame(FALSE)
    \/ ExportVideoYield
    \/ ExportVideoFinish(FALSE)

SpecRender == InitRender /\ [][NextRender]_vars

(***************************************************************************)
(* Properties of the render paths.                                         *)
(***************************************************************************)

\* The positions of operation x in the last run.
At(x) == {i \in 1..Len(lastRun.ev) : lastRun.ev[i] = x}

\* The last run went through tryGPURender and past its two early returns.
Dispatched ==
    /\ lastRun.kind \in {"render", "renderVideo", "exportVideo"}
    /\ lastRun.ret \in {"true", "threw"}

\* Effect e ran in the last run, by its process function or by a GPU draw.
Applied(e) == At(<<"cpu", e>>) \cup At(<<"gpu", e>>) # {}

\* C1: a render that tryGPURender handled applied every enabled stage; an
\* enabled dither that is not GPU-capable is applied through its process
\* function even when halftone went to the GPU.
C1_NoEnabledStageSkipped ==
    Dispatched => \A e \in EffectIds : Enabled(state, e) => Applied(e)

\* C5: a stage is drawn by the GPU only when useGPU is set, a WebGLManager
\* exists and the stage's parameters qualify; a dither stage with an
\* error-diffusion algorithm is never drawn by the GPU.
C5_ParallelOnlyWhenCapable ==
    /\ UsedParallel(lastRun) => useGPU /\ glManager = "ok"
    /\ \A i \in 1..Len(lastRun.ev) :
          lastRun.ev[i][1] = "gpu" => lastRun.ev[i][2] \in {"halftone_v1", "dither_v1"}
    /\ At(<<"gpu", "halftone_v1">>) # {} => Enabled(state, "halftone_v1")
    /\ At(<<"gpu", "dither_v1">>) # {} =>
          /\ Enabled(state, "dither_v1")
          /\ Get(state, "dither_v1", "algorithm") \in PatternAlgos
          /\ Get(state, "dither_v1", "algorithm") \notin ErrDiffAlgos

\* Acceleration is available and an enabled error-diffusion dither was applied
\* by a dispatched render: through its process function.
C5_Witness ==
    /\ lastRun.kind = "render"
    /\ lastRun.ret = "true"
    /\ useGPU /\ glManager = "ok"
    /\ Enabled(state, "dither_v1")
    /\ Get(state, "dither_v1", "algorithm") \in ErrDiffAlgos
    /\ At(<<"cpu", "dither_v1">>) # {}

\* C6: with acceleration available, a dispatched render draws an enabled
\* ordered/pattern dither and an enabled halftone on the GPU.
C6_CapableStagesRunParallel ==
    (Dispatched /\ useGPU /\ glManager = "ok") =>
        /\ Enabled(state, "halftone_v1") => At(<<"gpu", "halftone_v1">>) # {}
        /\ (Enabled(state, "dither_v1") /\ Get(state, "dither_v1", "algorithm") \in PatternAlgos)
              => At(<<"gpu", "dither_v1">>) # {}

StageOrder(e) ==
    CASE e = "preprocess_v1" -> 1
      [] e = "halftone_v1" -> 2
      [] e = "dither_v1" -> 3
      [] e = "glitch_v1" -> 4

\* The positions in the last run at which a stage ran.
StageAt == {i \in 1..Len(lastRun.ev) : lastRun.ev[i][1] \in {"cpu", "gpu"}}

\* C8: in every render path the stages that run do so in the order
\* pre-process, halftone, dither, glitch, each at most once; pre-process and
\* glitch always through their process functions, pre-process before the
\* upload to the GPU and glitch after the result is drawn back.
C8_FixedStageOrder ==
    /\ \A i, j \in StageAt :
          i < j => StageOrder(lastRun.ev[i][2]) < StageOrder(lastRun.ev[j][2])
    /\ At(<<"gpu", "preprocess_v1">>) = {}
    /\ At(<<"gpu", "glitch_v1">>) = {}
    /\ \A i \in At(<<"cpu", "preprocess_v1">>), j \in At(<<"gl", "upload">>) : i < j
    /\ \A i \in At(<<"gl", "drawback">>), j \in At(<<"cpu", "glitch_v1">>) : i < j

\* A render ran all four stages, in the fixed order.
C8_Witness ==
    /\ lastRun.kind = "render"
    /\ \A e \in EffectIds : Enabled(state, e)
    /\ lastRun.canvas = <<"preprocess_v1", "halftone_v1", "dither_v1", "glitch_v1">>
    /\ Len(lastRun.ev) >= 4

(***************************************************************************)
(* Properties of the session.                                              *)
(***************************************************************************)

\* The renders requestRender has scheduled and that have not run yet: the
\* pending debounce timer and the animation-frame callbacks its firing queued.
ScheduledRenders == (IF renderTimeout THEN 1 ELSE 0) + rafPending

\* C2: at any time at most one render that originates from requestRender is
\* scheduled and not yet executed, the debounce timer and the animation-frame
\* callback counted together.
C2_AtMostOneScheduledRender == ScheduledRenders <= 1

\* C3: after a control's onChange callback has stored a value, a pipeline
\* render that reads the stored value eventually executes (image, playing
\* video and paused video alike), unless a new file replaces the processor.
C3_ChangeEventuallyRendered == hist.dirty ~> ~hist.dirty

\* C4: once initWebGL has found WebGL unsupported, no later initialisation is
\* attempted and no stage is drawn by the GPU, whatever renders, exports,
\* initSystem calls and file loads follow.
C4_NoRetryAfterFailure == ~hist.retried /\ ~hist.parallelAfterFail

\* C9: the parameter state of every effect holds every key of the effect's
\* default parameters, at all times.
C9_StateHasEveryDefaultKey ==
    \A e \in EffectIds : DOMAIN EffectParams(e) \subseteq DOMAIN state[e]

\* A control callback and an automation write have both stored values, and an
\* export has read the state afterwards.
C9_Witness ==
    /\ lastRun.kind = "exportResult"
    /\ Get(state, "halftone_v1", "enabled") = "true"
    /\ Get(state, "preprocess_v1", "enabled") \in LFOValues

\* A step of a control's onChange callback.
ControlStep == \E c \in Controls : OnChange(c[1], c[2], c[3])

\* A step that replaces the processor, and its state with the defaults.
LoadStep == \E t \in {"image", "video"} : HandleFile(t)

\* A step of the Animator: play/stop, a new LFO, one turn of the loop.
AnimatorStep ==
    \/ \E b \in BOOLEAN, v \in LFOValues : AnimToggle(b, v)
    \/ \E t \in LFOTargets, v \in LFOValues : AddLFO(t, v)
    \/ \E v \in LFOValues : AnimatorFrame(v)

\* C10 as stated: the parameter state of a processor changes only in the
\* onChange callbacks of its controls.
C10_OnlyControlsWriteState ==
    [][state' # state => (ControlStep \/ LoadStep)]_vars

\* C10: the parameter state of a processor changes only in the onChange
\* callbacks of its controls and in the Animator loop, which writes each
\* automation's value to its target; renders, exports, timers, frame
\* callbacks and playback leave it as it is.
C10_OnlyControlsAndAnimatorWriteState ==
    [][state' # state => (ControlStep \/ LoadStep \/ AnimatorStep)]_vars

\* The Animator loop has written an LFO value over a parameter and a render
\* has run on it.
C10_Witness ==
    /\ animPlaying
    /\ automations # {}
    /\ Get(state, "preprocess_v1", "enabled") \in LFOValues
    /\ lastRun.kind = "render"

(***************************************************************************)
(* The exports on their whole input domain: a loaded processor, image or   *)
(* playing video, with the default parameters or with halftone enabled;    *)
(* every export size, resize mode and answer to the confirmation; every    *)
(* video export width, format and length up to TotalFrames, with failures  *)
(* of the encoder setup, of a frame and of the flush, and cancel() at any  *)
(* moment.                                                                 *)
(***************************************************************************)
ExportStates ==
    {ConstructorState, SetParam(ConstructorState, "halftone_v1", "enabled", "true")}

InitExport ==
    /\ phase = "ready"
    /\ sourceType \in {"image", "video"}
    /\ state \in ExportStates
    /\ useGPU \in BOOLEAN
    /\ glManager = IF useGPU THEN "ok" ELSE "unsupported"
    /\ effectBuild \in {"src", "gpu"}
    /\ renderTimeout = FALSE
    /\ rafPending = 0
    /\ videoPaused = (sourceType = "image")
    /\ vfcPending = IF sourceType = "video" THEN 1 ELSE 0
    /\ animPlaying = FALSE
    /\ automations = {}
    /\ animPending = 0
    /\ exporter = IdleExporter
    /\ canvasSize = "preview"
    /\ gpuCanvasSize \in {"default", "preview"}
    /\ exportLog = NoExport
    /\ lastRun = NoRun
    /\ hist = [NoHist EXCEPT !.gpuFailed = ~useGPU]
    /\ dither = IdleDither
    /\ halftone = IdleHalftone
    /\ grid = IdleGrid /\ audio = IdleAudio

NextExport ==
    \/ \E quick, confirmed \in BOOLEAN, mode \in ResizeModes, n, c \in PixelCounts :
          ExportResult(quick, mode, n, c, confirmed)
    \/ \E n \in PixelCounts : ExportSeparations(n)
    \/ \E width \in {"preview", "full"}, format \in {"webm", "gif"}, total \in 0..TotalFrames,
          setupFails \in BOOLEAN : ExportVideoStart(width, format, total, setupFails)
    \/ \E fails \in BOOLEAN : ExportVideoFrame(fails)
    \/ ExportVideoYield
    \/ \E flushFails \in BOOLEAN : ExportVideoFinish(flushFails)
    \/ Cancel
    \/ VideoFrameCallback
    \/ ExportVideoRefused

SpecExport == InitExport /\ [][NextExport]_vars

\* A seek completes, a zero timeout fires, the flush settles, a registered
\* frame callback runs.
FairSpecExport ==
    /\ SpecExport
    /\ WF_vars(\E fails \in BOOLEAN : ExportVideoFrame(fails))
    /\ WF_vars(ExportVideoYield)
    /\ WF_vars(\E flushFails \in BOOLEAN : ExportVideoFinish(flushFails))
    /\ WF_vars(VideoFrameCallback)

(***************************************************************************)
(* Properties of the exports.                                              *)
(***************************************************************************)

\* Every frame encoded by the last video export has an index no higher than
\* the frame that was in progress when cancel() was first called.
NoFrameAfterCancel ==
    exportLog.cancelledAt # -1 =>
        \A k \in 1..Len(exportLog.frames) : exportLog.frames[k] <= exportLog.cancelledAt

\* C11: when cancel() is called while a render is in progress, no frame with a
\* higher index than the one in progress is drawn or encoded, the frame loop
\* exits at the next loop head, and the render ends with isProcessing false.
C11_CancelStopsAtFrameBoundary ==
    /\ []NoFrameAfterCancel
    /\ (exporter.isProcessing /\ exporter.stopFlag) ~> ~exporter.isProcessing

\* cancel() came during the seek of frame 1 of 3: frame 1 was still encoded,
\* frame 2 never, and the render returned its blob.
C11_Witness ==
    /\ exportLog.kind = "video"
    /\ exportLog.total = 3
    /\ exportLog.cancelledAt = 1
    /\ exportLog.frames = <<0, 1>>
    /\ exportLog.result = "blob"
    /\ ~exporter.isProcessing

\* The last video export was rejected.
Rejected == exportLog.kind = "video" /\ exportLog.result = "rejected"

\* C12: a failed render is reported and downloads nothing, leaves
\* isProcessing false, and the processor canvas and the GPU canvas with the
\* sizes they had before the export.
C12_FailureRestoresBothCanvases ==
    Rejected =>
        /\ exportLog.alerted /\ ~exportLog.downloaded
        /\ ~exporter.isProcessing
        /\ exportLog.canvasAfter = exportLog.preCanvas
        /\ exportLog.gpuAfter = exportLog.preGpu

\* What the finally block does achieve: the processor canvas has the size it
\* had before the export, and the GPU canvas its own size from before the
\* export or that of the processor canvas.
FailureRestoresProcessorCanvas ==
    Rejected =>
        /\ exportLog.alerted /\ ~exportLog.downloaded
        /\ ~exporter.isProcessing
        /\ exportLog.canvasAfter = exportLog.preCanvas
        /\ exportLog.gpuAfter \in {exportLog.preGpu, exportLog.preCanvas}

\* A full-size export that had resized the canvases failed after two frames.
FailedAfterResize ==
    /\ Rejected
    /\ exportLog.width = "full"
    /\ exportLog.preCanvas = "preview"
    /\ Len(exportLog.frames) = 2
    /\ canvasSize = "preview"
    /\ exportLog.gpuAfter = "preview"

MaxPasses == 2

\* palTonal with the default colours, after hexToRgb.
DefaultPal == [shadow |-> <<0, 0, 0>>, mid |-> <<128, 128, 128>>, high |-> <<255, 255, 255>>]

\* DitherEffect.params.  indexedCount is in quarters (the LFO writes
\* fractions), resolution in twentieths (the slider has step 0.05), spread,
\* bleeding and roundness in tenths.
DitherDefaults ==
    [renderMode |-> "tonal", colorSpace |-> "indexed", indexedCount |-> 4 * 16,
     contrast |-> 0, algorithm |-> "floyd", spread |-> 10, knockout |-> FALSE,
     pal |-> DefaultPal, resolution |-> 20, bleeding |-> 0, roundness |-> 0]

\* const factorContrast = (259 * (params.contrast + 255)) / (255 * (259 - params.contrast))
factorContrast(contrast) == <<259 * (contrast + 255), 255 * (259 - contrast)>>

\* clamp(v) for v = n / d: the numerator of the result over d.
clamp(n, d) == IF n < 0 THEN 0 ELSE IF n > 255 * d THEN 255 * d ELSE n

factorOffCentre(v, f) == clamp(f[1] * v + 1280 * f[2], 10 * f[2])

\* factor(v, f) = clamp(f * (v - 128) + 128) for v in tenths: the numerator
\* of the result over 10 * f[2].
factor(v, f) == clamp(f[1] * (v - 1280) + 1280 * f[2], 10 * f[2])

\* Math.round(n / d): the nearest integer, halves upwards.
MathRound(n, d) == (2 * n + d) \div (2 * d)

\* A store of n / d into a Uint8ClampedArray: clamped to 0..255 and rounded
\* to the nearest integer, halves to the even one.
halfToEven(q, r, d) ==
    IF 2 * r < d THEN q
    ELSE IF 2 * r > d THEN q + 1
    ELSE IF q % 2 = 0 THEN q ELSE q + 1

Uint8Clamped(n, d) ==
    LET c == clamp(n, d) IN halfToEven(c \div d, c % d, d)

\* The largest k with k^3 <= count, for count in quarters.
RECURSIVE cbrtFloor(_, _)
cbrtFloor(count, k) ==
    IF 4 * (k + 1) * (k + 1) * (k + 1) > count THEN k ELSE cbrtFloor(count, k + 1)

\* Math.floor(Math.pow(count, 1 / 3)).  1 / 3 is not a double, and for a
\* perfect cube the power may come out just below the root (64 gives
\* 3.9999999999999996); powLow says whether the engine does that.
floorPow(count, powLow) ==
    LET k == cbrtFloor(count, 0)
    IN IF powLow /\ k >= 2 /\ 4 * k * k * k = count THEN k - 1 ELSE k

levelsUnclamped(count, powLow) == floorPow(count, powLow)

\* let levels = Math.floor(Math.pow(params.indexedCount, 1 / 3)); if (levels < 2) levels = 2;
levels(count, powLow) ==
    LET l == floorPow(count, powLow) IN IF l < 2 THEN 2 ELSE l

stepOfHalfRange(l) == <<255, l>>

\* const step = 255 / (levels - 1)
stepOf(l) == <<255, l - 1>>

lerpColorFromZero(c1, c2, t) == [i \in 1..3 |-> <<c2[i] * t[1], t[2]>>]

\* lerpColor(c1, c2, t): c1 + (c2 - c1) * t on each channel.
lerpColor(c1, c2, t) == [i \in 1..3 |-> <<c1[i] * t[2] + (c2[i] - c1[i]) * t[1], t[2]>>]

\* The luminance in 1/10000, clamped to 0..255.
clampLuma(l) == IF l < 0 THEN 0 ELSE IF l > 2550000 THEN 2550000 ELSE l

quantizeDown(n, d, step) == <<((n * step[2]) \div (d * step[1])) * step[1], step[2]>>

\* Math.round(v / step) * step for v = n / d.
quantize(n, d, step) == <<MathRound(n * step[2], d * step[1]) * step[1], step[2]>>

\* mapColor(r, g, b, params, contrastF, pal), r, g and b in tenths: three
\* fractions.  env.powLow and env.lumaErr are the engine's rounding.
mapColor(r, g, b, params, contrastF, pal, env) ==
    LET graded == params.renderMode = "grade" /\ contrastF[1] # 0
        d == 10 * contrastF[2]
        ch(v) == IF graded THEN factor(v, contrastF) ELSE v * contrastF[2]
    IN IF params.renderMode = "tonal"
       THEN LET luma == clampLuma(299 * r + 587 * g + 114 * b + env.lumaErr)
            IN IF luma < 1280000
               THEN lerpColor(pal.shadow, pal.mid, <<luma, 1280000>>)
               ELSE lerpColor(pal.mid, pal.high, <<luma - 1280000, 1270000>>)
       ELSE IF params.renderMode = "grade"
       THEN LET step == IF params.colorSpace = "indexed"
                        THEN stepOf(levels(params.indexedCount, env.powLow))
                        ELSE <<8, 1>>
            IN <<quantize(ch(r), d, step), quantize(ch(g), d, step), quantize(ch(b), d, step)>>
       ELSE <<<<ch(r), d>>, <<ch(g), d>>, <<ch(b), d>>>>

\* isShadow(c, pal)
isShadow(c, pal) == \A i \in 1..3 : c[i][1] = pal.shadow[i] * c[i][2]

writtenOpaque(px, c, params, pal) ==
    <<Uint8Clamped(c[1][1], c[1][2]), Uint8Clamped(c[2][1], c[2][2]),
      Uint8Clamped(c[3][1], c[3][2]), px[4]>>

\* data[i] = c[0]; data[i + 1] = c[1]; data[i + 2] = c[2];
\* if (params.knockout && isShadow(c, palTonal)) data[i + 3] = 0;
written(px, c, params, pal) ==
    <<Uint8Clamped(c[1][1], c[1][2]), Uint8Clamped(c[2][1], c[2][2]),
      Uint8Clamped(c[3][1], c[3][2]),
      IF params.knockout /\ isShadow(c, pal) THEN 0 ELSE px[4]>>

processSimple(data, w, params, contrastF, pal, env) ==
    [i \in DOMAIN data |->
        written(data[i],
                mapColor(10 * data[i][1], 10 * data[i][2], 10 * data[i][3],
                         params, contrastF, pal, env),
                params, pal)]

map4 == <<<<0, 8, 2, 10>>, <<12, 4, 14, 6>>, <<3, 11, 1, 9>>, <<15, 7, 13, 5>>>>

map8 ==
    <<<<0, 48, 12, 60, 3, 51, 15, 63>>, <<32, 16, 44, 28, 35, 19, 47, 31>>,
      <<8, 56, 4, 52, 11, 59, 7, 55>>, <<40, 24, 36, 20, 43, 27, 39, 23>>,
      <<2, 50, 14, 62, 1, 49, 13, 61>>, <<34, 18, 46, 30, 33, 17, 45, 29>>,
      <<10, 58, 6, 54, 9, 57, 5, 53>>, <<42, 26, 38, 22, 41, 25, 37, 21>>>>

mapStitch == <<<<4, 0, 4, 0>>, <<0, 4, 0, 4>>, <<4, 0, 4, 0>>, <<0, 4, 0, 4>>>>

\* Math.sin(x * 0.5) and Math.cos(y * 0.5) in thousandths, x and y in 0..15.
sinHalf == <<0, 479, 841, 997, 909, 598, 141, -351, -757, -978, -959, -706, -279, 215, 657, 938>>
cosHalf == <<1000, 878, 540, 71, -416, -801, -990, -936, -654, -211, 284, 709, 960, 977, 754, 347>>

spreadOfRounded(params) == (IF params.spread = 0 THEN 10 ELSE params.spread) + params.roundness

\* const spread = params.spread || 1.0, in tenths.
spreadOf(params) == IF params.spread = 0 THEN 10 ELSE params.spread

\* The threshold bias of processPattern at (x, y), in tenths.
bias(algo, x, y, spread) ==
    IF algo = "modulation"
    THEN (sinHalf[(x % 16) + 1] * cosHalf[(y % 16) + 1] * 32 * spread) \div 1000000
    ELSE IF algo = "stitched" THEN (mapStitch[(y % 4) + 1][(x % 4) + 1] - 2) * 10 * spread
    ELSE IF algo = "bayer4" THEN (4 * map4[(y % 4) + 1][(x % 4) + 1] - 32) * spread
    ELSE IF algo = "bayer8" THEN (map8[(y % 8) + 1][(x % 8) + 1] - 32) * spread
    ELSE 0

processPattern(data, w, params, contrastF, pal, env) ==
    [i \in DOMAIN data |->
        LET x == (i - 1) % w
            y == (i - 1) \div w
            b == bias(params.algorithm, x, y, spreadOf(params))
        IN written(data[i],
                   mapColor(10 * data[i][1] + b, 10 * data[i][2] + b, 10 * data[i][3] + b,
                            params, contrastF, pal, env),
                   params, pal)]

KernelOfSixths(algo) ==
    IF algo = "floyd"
    THEN <<<<1, 0, <<7, 16>>>>, <<-1, 1, <<3, 16>>>>, <<0, 1, <<5, 16>>>>, <<1, 1, <<1, 16>>>>>>
    ELSE IF algo = "atkinson"
    THEN <<<<1, 0, <<1, 6>>>>, <<2, 0, <<1, 6>>>>, <<-1, 1, <<1, 6>>>>, <<0, 1, <<1, 6>>>>,
           <<1, 1, <<1, 6>>>>, <<0, 2, <<1, 6>>>>>>
    ELSE <<<<1, 0, <<2, 4>>>>, <<-1, 1, <<1, 4>>>>, <<0, 1, <<1, 4>>>>>>

\* The kernels of applyEffectLoop: <<x, y, f>> with f a fraction.
Kernel(algo) ==
    IF algo = "floyd"
    THEN <<<<1, 0, <<7, 16>>>>, <<-1, 1, <<3, 16>>>>, <<0, 1, <<5, 16>>>>, <<1, 1, <<1, 16>>>>>>
    ELSE IF algo = "atkinson"
    THEN <<<<1, 0, <<1, 8>>>>, <<2, 0, <<1, 8>>>>, <<-1, 1, <<1, 8>>>>, <<0, 1, <<1, 8>>>>,
           <<1, 1, <<1, 8>>>>, <<0, 2, <<1, 8>>>>>>
    ELSE <<<<1, 0, <<2, 4>>>>, <<-1, 1, <<1, 4>>>>, <<0, 1, <<1, 4>>>>>>

\* data[idx] = clamp(data[idx] + er * f) for the error er = e[1] / e[2] and
\* the kernel weight f, stored into the Uint8ClampedArray.  The sum is split
\* into its integer part and a fraction of one so that the products stay
\* within 32 bits.
addError(v, e, f) ==
    LET whole == v * f[2] + (e[1] \div e[2]) * f[1]
        n == (whole % f[2]) * e[2] + (e[1] % e[2]) * f[1]
        d == e[2] * f[2]
        int == (whole \div f[2]) + (n \div d)
    IN IF int < 0 THEN 0
       ELSE IF int >= 255 THEN 255
       ELSE halfToEven(int, n % d, d)

distributeWrapping(data, x, y, e, f, w) ==
    LET idx == y * w + x + 1
    IN IF idx > Len(data) THEN data
       ELSE [data EXCEPT ![idx] =
               <<addError(@[1], e[1], f), addError(@[2], e[2], f),
                 addError(@[3], e[3], f), @[4]>>]

\* distribute(data, x, y, er, eg, eb, f, w); e holds the three errors.
distribute(data, x, y, e, f, w) ==
    IF x < 0 \/ x >= w THEN data
    ELSE LET idx == y * w + x + 1
         IN IF idx > Len(data) THEN data
            ELSE [data EXCEPT ![idx] =
                    <<addError(@[1], e[1], f), addError(@[2], e[2], f),
                      addError(@[3], e[3], f), @[4]>>]

\* for (let k = 0; k < kernel.length; k++) distribute(...)
RECURSIVE distributeAll(_, _, _, _, _, _, _)
distributeAll(data, x, y, e, kernel, k, w) ==
    IF k > Len(kernel) THEN data
    ELSE distributeAll(distribute(data, x + kernel[k][1], y + kernel[k][2], e, kernel[k][3], w),
                       x, y, e, kernel, k + 1, w)

\* The body of processErrDiff's loops for pixel p: map, store, distribute.
errDiffPixel(data, p, w, params, contrastF, pal, env, kernel) ==
    LET px == data[p]
        c == mapColor(10 * px[1], 10 * px[2], 10 * px[3], params, contrastF, pal, env)
        e == [i \in 1..3 |-> <<px[i] * c[i][2] - c[i][1], c[i][2]>>]
        stored == [data EXCEPT ![p] = written(px, c, params, pal)]
    IN distributeAll(stored, (p - 1) % w, (p - 1) \div w, e, kernel, 1, w)

\* processErrDiff from pixel p on, in row order.
RECURSIVE errDiffFrom(_, _, _, _, _, _, _, _)
errDiffFrom(data, p, w, params, contrastF, pal, env, kernel) ==
    IF p > Len(data) THEN data
    ELSE errDiffFrom(errDiffPixel(data, p, w, params, contrastF, pal, env, kernel),
                     p + 1, w, params, contrastF, pal, env, kernel)

\* The rasters processErrDiff goes through from pixel p on: the one before
\* pixel p, the one before pixel p + 1, ..., the final one.
RECURSIVE errDiffTrace(_, _, _, _, _, _, _, _)
errDiffTrace(data, p, w, params, contrastF, pal, env, kernel) ==
    IF p > Len(data) THEN <<data>>
    ELSE <<data>> \o errDiffTrace(errDiffPixel(data, p, w, params, contrastF, pal, env, kernel),
                                  p + 1, w, params, contrastF, pal, env, kernel)

processErrDiff(data, w, params, contrastF, pal, env, kernel) ==
    errDiffFrom(data, 1, w, params, contrastF, pal, env, kernel)

applyEffectLoop(data, w, params, contrastF, pal, env) ==
    IF params.algorithm = "none"
    THEN processSimple(data, w, params, contrastF, pal, env)
    ELSE IF params.algorithm \in PatternAlgos
    THEN processPattern(data, w, params, contrastF, pal, env)
    ELSE processErrDiff(data, w, params, contrastF, pal, env, Kernel(params.algorithm))

\* For every pixel, whether params.knockout && isShadow(c, palTonal) held for
\* the colour c that mapColor returned for it, in the strategy applyEffectLoop
\* chose.
knockedOut(data, w, params, contrastF, pal, env) ==
    LET seen == IF params.algorithm \in ErrDiffAlgos
                THEN LET tr == errDiffTrace(data, 1, w, params, contrastF, pal, env,
                                            Kernel(params.algorithm))
                     IN [i \in DOMAIN data |-> tr[i][i]]
                ELSE data
        b(i) == IF params.algorithm \in PatternAlgos
                THEN bias(params.algorithm, (i - 1) % w, (i - 1) \div w, spreadOf(params))
                ELSE 0
    IN [i \in DOMAIN data |->
          /\ params.knockout
          /\ \E px \in {seen[i]} :
             isShadow(mapColor(10 * px[1] + b(i), 10 * px[2] + b(i), 10 * px[3] + b(i),
                               params, contrastF, pal, env), pal)]

workSizeUnclamped(n, resolution) == (n * resolution) \div 20

\* Math.max(1, Math.floor(width * params.resolution))
workSize(n, resolution) ==
    IF (n * resolution) \div 20 < 1 THEN 1 ELSE (n * resolution) \div 20

\* drawImage of a w x h raster onto a w2 x h2 one without smoothing: every
\* target pixel takes the source pixel under its centre.
drawImage(data, w, h, w2, h2) ==
    [i \in 1..(w2 * h2) |->
        LET x == (i - 1) % w2
            y == (i - 1) \div w2
        IN data[(((2 * y + 1) * h) \div (2 * h2)) * w + (((2 * x + 1) * w) \div (2 * w2)) + 1]]

\* DitherEffect.process on a canvas of width w: the working raster, the
\* raster applyEffectLoop leaves, and the canvas afterwards.  For a working
\* width or height of 0 tCtx.getImageData throws an IndexSizeError and the
\* canvas stays as it was.
ditherProcess(data, w, params, env) ==
    LET h == Len(data) \div w
        ww == workSize(w, params.resolution)
        wh == workSize(h, params.resolution)
        contrastF == factorContrast(params.contrast)
    IN IF ww < 1 \/ wh < 1
       THEN [ww |-> ww, work |-> <<>>, out |-> <<>>, data |-> data, knocked |-> <<>>,
             threw |-> TRUE]
       ELSE CHOOSE run \in
          {[ww |-> ww, work |-> work, out |-> out, data |-> drawImage(out, ww, wh, w, h),
            knocked |-> knockedOut(work, ww, params, contrastF, params.pal, env),
            threw |-> FALSE]
           : <<work, out>> \in
               {<<wk, applyEffectLoop(wk, ww, params, contrastF, params.pal, env)>>
                : wk \in {drawImage(data, w, h, ww, wh)}}} : TRUE

\* The rasters handed to the effect: a 16 x 16 ramp with every channel value
\* 0..255, a 4 x 4 ramp in steps of 17 for the error diffusions, the 2 x 2
\* raster of (200,100,50) with two alpha values, a row of a black pixel, a
\* pixel of luminance 128, a white one and a nearly black one, a 2 x 2
\* raster of mixed colours; InitDither adds a single pixel.
Ramp == [i \in 1..256 |-> <<i - 1, i - 1, i - 1, 255>>]

Coarse == [i \in 1..16 |-> <<17 * (i - 1), 17 * (i - 1), 17 * (i - 1), 255>>]

Orange == <<<<200, 100, 50, 255>>, <<200, 100, 50, 128>>,
            <<200, 100, 50, 255>>, <<200, 100, 50, 128>>>>

Stops == <<<<0, 0, 0, 255>>, <<8, 200, 72, 255>>, <<255, 255, 255, 255>>, <<1, 0, 0, 200>>>>

Mixed == <<<<252, 136, 7, 255>>, <<255, 0, 128, 200>>, <<3, 4, 250, 255>>, <<127, 129, 64, 255>>>>

Rasters(algo) ==
    {IF algo \in ErrDiffAlgos THEN [w |-> 4, data |-> Coarse] ELSE [w |-> 16, data |-> Ramp],
     [w |-> 2, data |-> Orange], [w |-> 4, data |-> Stops], [w |-> 2, data |-> Mixed]}

\* contrast slider: -100..100.
Contrasts == {-100, -37, 0, 50, 100}

\* indexedCount in quarters: the slider gives 2..64, the LFO any value
\* Math.abs(val) in 0..100.
Counts == {0, 1, 4, 7, 8, 32, 64, 108, 256, 400}

Colours == {<<0, 0, 0>>, <<255, 255, 255>>, <<255, 0, 64>>}

Palettes == {DefaultPal} \cup {[shadow |-> s, mid |-> m, high |-> h] : s, m, h \in Colours}

GradeRgb ==
    {[DitherDefaults EXCEPT !.renderMode = "grade", !.colorSpace = "rgb", !.contrast = c,
                            !.algorithm = a, !.knockout = k]
     : c \in Contrasts, a \in Algorithms, k \in BOOLEAN}

GradeIndexed ==
    {[DitherDefaults EXCEPT !.renderMode = "grade", !.indexedCount = n, !.contrast = c,
                            !.algorithm = a, !.spread = s]
     : n \in Counts, c \in Contrasts, a \in Algorithms, s \in {10, 20}}
    \ [renderMode : {"grade"}, colorSpace : {"indexed"}, indexedCount : Counts,
       contrast : Contrasts, algorithm : Algorithms \ PatternAlgos, spread : {20},
       knockout : {FALSE}, pal : {DefaultPal}, resolution : {20}, bleeding : {0},
       roundness : {0}]

Tonal ==
    {[DitherDefaults EXCEPT !.algorithm = a, !.knockout = k, !.pal = p]
     : a \in Algorithms, k \in BOOLEAN, p \in Palettes}

\* Every algorithm and render mode offered, at the resolutions 0.05, 0.5 and
\* 1 of the RESOLUTION / DPI slider (0.05..1.0), with bleeding and roundness
\* at 0 and at 1 (they have no control; the LFO writes Math.abs(val)).
Offered ==
    {[DitherDefaults EXCEPT !.renderMode = m, !.algorithm = a, !.resolution = r,
                            !.bleeding = bl, !.roundness = ro]
     : m \in {"tonal", "grade"}, a \in Algorithms, r \in {1, 10, 20},
       bl \in {0, 10}, ro \in {0, 10}}

DitherInputs == GradeRgb \cup GradeIndexed \cup Tonal \cup Offered

InitDither ==
    /\ Constructed
    /\ \E p \in DitherInputs, low \in BOOLEAN :
       \E r \in Rasters(p.algorithm) \cup {[w |-> 1, data |-> <<<<200, 100, 50, 255>>>>]} :
          /\ low => /\ p.renderMode = "grade" /\ p.colorSpace = "indexed"
                    /\ p.indexedCount \in {4 * 8, 4 * 27, 4 * 64}
          /\ r.w = 1 => p \in Offered
          /\ dither = [IdleDither EXCEPT !.params = p, !.w = r.w, !.source = r.data,
                                         !.prev = r.data, !.data = r.data, !.powLow = low]
    /\ halftone = IdleHalftone
    /\ grid = IdleGrid /\ audio = IdleAudio

\* DitherEffect.process on the canvas.
ApplyDither(lumaErr) ==
    /\ dither.w > 0
    /\ dither.passes < MaxPasses
    /\ \E run \in {ditherProcess(dither.data, dither.w, dither.params,
                                   [powLow |-> dither.powLow, lumaErr |-> lumaErr])} :
          dither' = [dither EXCEPT !.prev = dither.data, !.data = run.data,
                                   !.passes = @ + 1, !.ww = run.ww, !.work = run.work,
                                   !.out = run.out, !.knocked = run.knocked,
                                   !.threw = run.threw]
    /\ UNCHANGED <<sessionVars, halftone, grid, audio>>

NextDither == \E lumaErr \in -1..1 : ApplyDither(lumaErr)

SpecDither == InitDither /\ [][NextDither]_vars

(***************************************************************************)
(* HalftoneEffect.process: the dot pitch, for its three callers.  scale is *)
(* in halves (the slider has step 0.5), a scale factor and a step are      *)
(* fractions in lowest terms.                                              *)
(***************************************************************************)
RECURSIVE gcd(_, _)
gcd(a, b) == IF b = 0 THEN a ELSE gcd(b, a % b)

Fraction(n, d) == <<n \div gcd(n, d), d \div gcd(n, d)>>

\* Widths of the loaded image or video.
NaturalWidths == {480, 960, 1920, 2880}

\* DOT SIZE slider: 1..20 in steps of 0.5.
Scales == 2..40

\* setupPreview for a source at least as wide as high.
previewWidth(w) == IF w > maxPreview THEN maxPreview ELSE w

\* const scaledStep = params.scale * scaleFactor; const step = Math.max(2, scaledStep);
step(scale, scaleFactor) ==
    LET scaledStep == Fraction(scale * scaleFactor[1], 2 * scaleFactor[2])
    IN IF scaledStep[1] < 2 * scaledStep[2] THEN <<2, 1>> ELSE scaledStep

\* One call of HalftoneEffect.process(ctx, width, height, params, scaleFactor).
HalftonePass(caller, width, scaleFactor) ==
    /\ halftone' = [halftone EXCEPT !.passes = @ \cup
          {[caller |-> caller, width |-> width, scaleFactor |-> scaleFactor,
            step |-> step(halftone.scale, scaleFactor)]}]
    /\ UNCHANGED <<sessionVars, dither, grid, audio>>

\* render(): the preview canvas with scale factor 1.0.
RenderHalftone ==
    /\ halftone.natural > 0
    /\ HalftonePass("preview", previewWidth(halftone.natural), <<1, 1>>)

\* exportResult at the original resolution: exportScale = w / this.canvas.width.
ExportHalftoneImage ==
    /\ halftone.natural > 0
    /\ HalftonePass("image", halftone.natural,
                    Fraction(halftone.natural, previewWidth(halftone.natural)))

\* VideoExporter.render at full resolution: the video's width, scale factor 1.0.
ExportHalftoneVideo ==
    /\ halftone.natural > 0
    /\ HalftonePass("video", halftone.natural, <<1, 1>>)

InitHalftone ==
    /\ Constructed
    /\ dither = IdleDither
    /\ grid = IdleGrid /\ audio = IdleAudio
    /\ \E s \in Scales, n \in NaturalWidths :
          halftone = [scale |-> s, natural |-> n, passes |-> {}]

NextHalftone ==
    \/ RenderHalftone
    \/ ExportHalftoneImage
    \/ ExportHalftoneVideo

SpecHalftone == InitHalftone /\ [][NextHalftone]_vars

(***************************************************************************)
(* Properties of the effects.                                              *)
(***************************************************************************)

\* C14: the dot pitch of every halftone pass is the configured pitch times
\* the caller's scale factor, and the ratio of dot pitch to raster width is
\* the same for the preview, the full-size image export and the full-size
\* video export.
C14_PitchScalesWithRaster ==
    /\ \A p \in halftone.passes :
          2 * p.step[1] * p.scaleFactor[2] = halftone.scale * p.scaleFactor[1] * p.step[2]
    /\ \A p, q \in halftone.passes :
          p.step[1] * q.step[2] * q.width = q.step[1] * p.step[2] * p.width

GradeRgbNone ==
    /\ dither.w > 0
    /\ dither.params.renderMode = "grade"
    /\ dither.params.colorSpace = "rgb"
    /\ dither.params.algorithm = "none"

\* C15: in grade mode with colorSpace 'rgb' and algorithm 'none', the second
\* application of the effect leaves the raster of the first unchanged,
\* whatever the other parameters.
C15_SecondPassChangesNothing ==
    (GradeRgbNone /\ dither.passes = 2) => dither.data = dither.prev

\* C15, for contrast 0: in grade mode with colorSpace 'rgb', algorithm 'none'
\* and contrast 0, the second application of the effect leaves the raster of
\* the first unchanged.
C15_SecondPassChangesNothingAtContrastZero ==
    (GradeRgbNone /\ dither.params.contrast = 0 /\ dither.passes = 2) =>
        dither.data = dither.prev

C15_Witness ==
    /\ GradeRgbNone
    /\ dither.params.contrast = 0
    /\ dither.passes = 2
    /\ dither.source = Ramp
    /\ dither.data = dither.prev
    /\ dither.data # dither.source
    /\ dither.data[256][1] = 255

\* The scenario: every pixel (200,100,50), grade mode, indexed, count 8,
\* contrast 0, every other parameter at its default, one application.
OrangeScenario ==
    /\ dither.source = Orange
    /\ dither.passes = 1
    /\ \E a \in Algorithms :
          dither.params = [DitherDefaults EXCEPT !.renderMode = "grade",
                                                 !.indexedCount = 4 * 8, !.algorithm = a]

AllRedAlphaKept ==
    \A i \in DOMAIN dither.data : dither.data[i] = <<255, 0, 0, dither.source[i][4]>>

\* C16: the scenario gives (255,0,0) at every pixel with the alpha values
\* unchanged, for the default algorithm ('floyd') as well as for 'none'.
C16_OrangeToRedAlsoByDefault ==
    (OrangeScenario /\ dither.params.algorithm \in {"none", "floyd"}) => AllRedAlphaKept

\* C16, for algorithm 'none': the scenario gives (255,0,0) at every pixel
\* with the alpha values unchanged.
C16_OrangeToRedWithoutDither ==
    (OrangeScenario /\ dither.params.algorithm = "none") => AllRedAlphaKept

C16_Witness ==
    /\ OrangeScenario
    /\ dither.params.algorithm = "none"
    /\ dither.data = <<<<255, 0, 0, 255>>, <<255, 0, 0, 128>>,
                       <<255, 0, 0, 255>>, <<255, 0, 0, 128>>>>

GradeIndexed8 ==
    /\ dither.w > 0
    /\ dither.params.renderMode = "grade"
    /\ dither.params.colorSpace = "indexed"
    /\ dither.params.indexedCount = 4 * 8

BlackOrWhiteChannels ==
    \A i \in DOMAIN dither.data : \A ch \in 1..3 : dither.data[i][ch] \in {0, 255}

\* C17: in grade mode, indexed, count 8, every colour channel of the raster
\* is 0 or 255 after the effect, for every contrast and every algorithm.
C17_TwoLevelsPerChannel ==
    (GradeIndexed8 /\ dither.passes >= 1) => BlackOrWhiteChannels

\* A ramp through Floyd-Steinberg at contrast 100: both values occur.
C17_Witness ==
    /\ GradeIndexed8
    /\ dither.params.algorithm = "floyd"
    /\ dither.params.contrast = 100
    /\ dither.source = Coarse
    /\ dither.passes = 1
    /\ BlackOrWhiteChannels
    /\ \E i, j \in DOMAIN dither.data : dither.data[i][1] = 0 /\ dither.data[j][1] = 255

\* 1000 times the luminance 0.299 r + 0.587 g + 0.114 b of a pixel.
luma(px) == 299 * px[1] + 587 * px[2] + 114 * px[3]

\* Pixel i went through mapColor as it was in the raster: at resolution 1,
\* every pixel of processSimple, the first pixel of an error diffusion.
MappedDirectly(i) ==
    /\ dither.params.resolution = 20
    /\ \/ dither.params.algorithm = "none"
       \/ dither.params.algorithm \in ErrDiffAlgos /\ i = 1

Rgb(px) == <<px[1], px[2], px[3]>>

\* C18: in tonal mode a pixel of luminance 0 gets the shadow colour, one of
\* luminance 128 the mid colour and one of luminance 255 the highlight
\* colour, exactly, for every palette.
C18_StopsMapToPalette ==
    (dither.w > 0 /\ dither.params.renderMode = "tonal" /\ dither.passes >= 1) =>
        \A i \in DOMAIN dither.data :
            MappedDirectly(i) =>
                /\ luma(dither.prev[i]) = 0 => Rgb(dither.data[i]) = dither.params.pal.shadow
                /\ luma(dither.prev[i]) = 128000 => Rgb(dither.data[i]) = dither.params.pal.mid
                /\ luma(dither.prev[i]) = 255000 => Rgb(dither.data[i]) = dither.params.pal.high

C18_Witness ==
    /\ dither.params.renderMode = "tonal"
    /\ dither.params.algorithm = "none"
    /\ dither.params.pal = [shadow |-> <<255, 0, 64>>, mid |-> <<255, 255, 255>>,
                            high |-> <<0, 0, 0>>]
    /\ dither.source = Stops
    /\ dither.passes = 1
    /\ Rgb(dither.data[1]) = <<255, 0, 64>>
    /\ Rgb(dither.data[2]) = <<255, 255, 255>>
    /\ Rgb(dither.data[3]) = <<0, 0, 0>>

\* C19: in grade mode with colorSpace 'rgb' every colour channel written to
\* the raster is a multiple of 8, and the inputs 0..255 give exactly 32
\* different values.
C19_ThirtyTwoMultiplesOfEight ==
    (dither.w > 0 /\ dither.params.renderMode = "grade" /\ dither.params.colorSpace = "rgb"
        /\ dither.passes >= 1) =>
        /\ \A i \in DOMAIN dither.data : \A ch \in 1..3 : dither.data[i][ch] % 8 = 0
        /\ (dither.params.algorithm = "none" /\ dither.params.contrast = 0
                /\ dither.prev = Ramp) =>
              Cardinality({dither.data[i][1] : i \in DOMAIN dither.data}) = 32

\* C20: in grade mode, indexed, levels is at least 2 for every indexedCount;
\* for an indexedCount below 2 the step is 255 and every colour channel of
\* the raster is 0 or 255 after the effect.
C20_LevelsAtLeastTwo ==
    (dither.w > 0 /\ dither.params.renderMode = "grade"
        /\ dither.params.colorSpace = "indexed") =>
        /\ levels(dither.params.indexedCount, dither.powLow) >= 2
        /\ dither.params.indexedCount < 4 * 2 =>
              /\ stepOf(levels(dither.params.indexedCount, dither.powLow)) = <<255, 1>>
              /\ dither.passes >= 1 => BlackOrWhiteChannels

C20_Witness ==
    /\ dither.params.renderMode = "grade"
    /\ dither.params.colorSpace = "indexed"
    /\ dither.params.indexedCount = 0
    /\ dither.params.algorithm = "none"
    /\ dither.source = Ramp
    /\ dither.passes = 1
    /\ dither.data[1][1] = 0
    /\ dither.data[256][1] = 255

\* The colour mapColor returns for pixel i of the working raster when the
\* pixel reaches it unchanged (algorithm 'none').
directColour(i, lumaErr) ==
    mapColor(10 * dither.work[i][1], 10 * dither.work[i][2], 10 * dither.work[i][3],
             dither.params, factorContrast(dither.params.contrast), dither.params.pal,
             [powLow |-> dither.powLow, lumaErr |-> lumaErr])

\* C21: in every strategy a pixel's alpha is set to 0 exactly when knockout
\* is on and the colour mapColor returned for it equals the shadow colour on
\* all three channels (the pixel then holds the shadow colour); every other
\* alpha value is the one the working raster had, and without knockout no
\* alpha value of the working raster changes.
C21_KnockoutOnlyExactShadow ==
    (dither.w > 0 /\ dither.passes >= 1) =>
        /\ \A i \in DOMAIN dither.out :
              /\ dither.out[i][4] = IF dither.knocked[i] THEN 0 ELSE dither.work[i][4]
              /\ dither.knocked[i] =>
                    dither.params.knockout /\ Rgb(dither.out[i]) = dither.params.pal.shadow
        /\ dither.params.algorithm = "none" =>
              \E lumaErr \in -1..1 : \A i \in DOMAIN dither.out :
                  dither.knocked[i] <=>
                      (dither.params.knockout
                          /\ isShadow(directColour(i, lumaErr), dither.params.pal))
        /\ ~dither.params.knockout =>
              \A i \in DOMAIN dither.out : dither.out[i][4] = dither.work[i][4]

\* Tonal mode with knockout on the row of stops: the black pixel is knocked
\* out; the pixel (1,0,0) maps to 0.299 on every channel, which is stored as
\* the shadow colour 0 but is not equal to it, and keeps its alpha.
C21_Witness ==
    /\ dither.params = [DitherDefaults EXCEPT !.algorithm = "none", !.knockout = TRUE]
    /\ dither.source = Stops
    /\ dither.passes = 1
    /\ dither.data[1] = <<0, 0, 0, 0>>
    /\ dither.data[4] = <<0, 0, 0, 200>>
    /\ dither.data[3] = <<255, 255, 255, 255>>
    /\ dither.knocked = <<TRUE, FALSE, FALSE, FALSE>>

(***************************************************************************)
(* HalftoneEffect.process on one raster: the grid loops, the dots and the  *)
(* canvas they leave.  Every angle is 0 (cos 1, sin 0) and the rasters     *)
(* have a whole-numbered diagonal, so that every position of the grid is a *)
(* fraction: for a step n / d the unit of length is 1 / (2 d) of a pixel.  *)
(* A pixel of the raster is <<r, g, b>>, the opacity is in tenths.         *)
(***************************************************************************)

\* const diag = Math.sqrt(width * width + height * height)
diag(w, h) == CHOOSE dg \in 1..(w + h) : dg * dg = w * w + h * h

\* channels[ch].getVal(r, g, b) for cyan, magenta, yellow and black.
getVal(ch, px) ==
    IF ch = 4
    THEN 255 - (CHOOSE v \in {px[1], px[2], px[3]} : \A u \in {px[1], px[2], px[3]} : u <= v)
    ELSE 255 - px[ch]

drawnFromTen(val) == val >= 10

\* if (val > 10)
drawn(val) == val > 10

\* The number of iterations of for (let x = -diag; x < diag; x += step); -1
\* if x never reaches diag.
iterationsOf(dg, st) ==
    IF st[1] <= 0 THEN -1 ELSE ((2 * st[2] * dg - 1) \div st[1]) + 1

\* The values x takes in that loop.
gridLine(dg, st) == {2 * st[1] * k - 2 * st[2] * dg : k \in 0..(iterationsOf(dg, st) - 1)}

\* Math.floor(x * cos - y * sin + width / 2) at angle 0.
srcOf(x, size, st) == (x + st[2] * size) \div (2 * st[2])

\* The dots of the four layers: the ink, the centre (drawX, drawY), the
\* sampled pixel and its coverage val; the radius is (val / 255) * (step / 1.2).
dotsOf(raster, w, h, st) ==
    {[ch |-> ch, x |-> x + st[2] * w, y |-> y + st[2] * h,
      srcX |-> srcOf(x, w, st), srcY |-> srcOf(y, h, st),
      val |-> getVal(ch, raster[srcOf(y, h, st) * w + srcOf(x, w, st) + 1])]
     : <<ch, x, y>> \in
         {c \in (1..4) \X gridLine(diag(w, h), st) \X gridLine(diag(w, h), st) :
             /\ srcOf(c[2], w, st) >= 0 /\ srcOf(c[2], w, st) < w
             /\ srcOf(c[3], h, st) >= 0 /\ srcOf(c[3], h, st) < h
             /\ drawn(getVal(c[1], raster[srcOf(c[3], h, st) * w + srcOf(c[2], w, st) + 1]))}}

\* The point (x, y), in units of 1 / (2 d) pixel, lies within the dot.
within(dot, x, y, st) ==
    153 * 153 * ((x - dot.x) * (x - dot.x) + (y - dot.y) * (y - dot.y))
        <= (dot.val * st[1]) * (dot.val * st[1])

\* What a layer's dots make of pixel (px, py): 2 if one dot covers the whole
\* pixel, 1 if a dot covers its centre only (the edge of a dot, anti-aliased),
\* 0 if no dot covers its centre.
cover(dots, ch, px, py, st) ==
    LET u == 2 * st[2]
    IN IF \E dot \in dots :
             /\ dot.ch = ch
             /\ \A a \in {px, px + 1}, b \in {py, py + 1} : within(dot, u * a, u * b, st)
       THEN 2
       ELSE IF \E dot \in dots :
                  dot.ch = ch /\ within(dot, st[2] * (2 * px + 1), st[2] * (2 * py + 1), st)
       THEN 1
       ELSE 0

\* The canvas after the four ctx.drawImage(layer, 0, 0): per pixel, the
\* cover of each ink.
layersOf(dots, w, h, st) ==
    [i \in 1..(w * h) |-> [ch \in 1..4 |-> cover(dots, ch, (i - 1) % w, (i - 1) \div w, st)]]

\* The centre of the pixel is (0,0,0) after the 'multiply' compositing on
\* white, whatever the anti-aliasing makes of the rest of it: at opacity 1,
\* under a black dot or under a cyan, a magenta and a yellow one.
blackCentre(px, opacity) ==
    opacity = 10 /\ (px[4] >= 1 \/ \A ch \in 1..3 : px[ch] >= 1)

Flat(w, h, colour) == [i \in 1..(w * h) |-> colour]

\* A 3 x 4 raster with white pixels among others.
Patches ==
    <<<<255, 255, 255>>, <<0, 0, 0>>, <<255, 255, 255>>,
      <<244, 250, 0>>, <<255, 255, 255>>, <<200, 100, 50>>,
      <<255, 255, 255>>, <<245, 245, 245>>, <<12, 200, 255>>,
      <<0, 0, 0>>, <<255, 255, 255>>, <<255, 255, 255>>>>

\* Rasters 3 x 4, 8 x 6 and 12 x 16 (diagonals 5, 10, 20): flat black, flat
\* white, flat with coverage 10 on every ink, flat with coverages 11, 5, 255
\* and 5, and the patches.
GridRasters ==
    {[w |-> sz[1], h |-> sz[2], raster |-> Flat(sz[1], sz[2], colour)]
     : sz \in {<<3, 4>>, <<8, 6>>, <<12, 16>>},
       colour \in {<<0, 0, 0>>, <<255, 255, 255>>, <<245, 245, 245>>, <<244, 250, 0>>}}
    \cup {[w |-> 3, h |-> 4, raster |-> Patches]}

\* params.scale is in halves: the DOT SIZE slider gives 1..20, the LFO any
\* Math.abs(val), 0 included.  scaleFactor is 1.0 for the preview and the
\* video export, w / canvas.width for an image export.
InitGrid ==
    /\ Constructed
    /\ dither = IdleDither
    /\ halftone = IdleHalftone
    /\ audio = IdleAudio
    /\ \E r \in GridRasters, s \in {0, 2, 3, 4, 8, 13, 40},
          f \in {<<1, 2>>, <<1, 1>>, <<2, 1>>}, o \in {8, 10} :
          grid = [IdleGrid EXCEPT !.w = r.w, !.h = r.h, !.raster = r.raster, !.scale = s,
                                  !.scaleFactor = f, !.opacity = o]

\* HalftoneEffect.process(ctx, width, height, params, scaleFactor).
HalftoneProcess ==
    /\ grid.w > 0
    /\ ~grid.done
    /\ \E st \in {step(grid.scale, grid.scaleFactor)} :
       \E dots \in {IF iterationsOf(diag(grid.w, grid.h), st) < 0 THEN {}
                    ELSE dotsOf(grid.raster, grid.w, grid.h, st)} :
          grid' = [grid EXCEPT
              !.done = iterationsOf(diag(grid.w, grid.h), st) >= 0,
              !.step = st,
              !.iterations = iterationsOf(diag(grid.w, grid.h), st),
              !.dots = dots,
              !.canvas = IF iterationsOf(diag(grid.w, grid.h), st) < 0 THEN <<>>
                         ELSE layersOf(dots, grid.w, grid.h, st)]
    /\ UNCHANGED <<sessionVars, dither, halftone, audio>>

SpecGrid == InitGrid /\ [][HalftoneProcess]_vars

(***************************************************************************)
(* Properties of the halftone grid.                                        *)
(***************************************************************************)

\* The dots whose sample is pixel i of the raster.
DotsAt(i) == {dot \in grid.dots : dot.srcY * grid.w + dot.srcX + 1 = i}

\* C22: a white pixel has coverage 0 on all four inks (255 - r, 255 - g,
\* 255 - b, 255 - max) and gets no dot; every dot drawn has its sample inside
\* the raster and a coverage above 10, the coverage of the sampled pixel.
C22_DotsOnlyInsideAboveTen ==
    grid.done =>
        /\ \A i \in DOMAIN grid.raster :
              LET px == grid.raster[i]
              IN /\ getVal(1, px) = 255 - px[1]
                 /\ getVal(2, px) = 255 - px[2]
                 /\ getVal(3, px) = 255 - px[3]
                 /\ \E c \in 1..3 : getVal(4, px) = 255 - px[c]
                 /\ \A c \in 1..3 : getVal(4, px) <= 255 - px[c]
                 /\ px = <<255, 255, 255>> =>
                       /\ \A ch \in 1..4 : getVal(ch, px) = 0
                       /\ DotsAt(i) = {}
        /\ \A dot \in grid.dots :
              /\ dot.srcX \in 0..(grid.w - 1)
              /\ dot.srcY \in 0..(grid.h - 1)
              /\ dot.val = getVal(dot.ch, grid.raster[dot.srcY * grid.w + dot.srcX + 1])
              /\ dot.val > 10

\* The patches at pitch 4: the one cell inside the raster samples the pixel
\* (244,250,0), which gets a cyan dot (coverage 11) and a yellow one (255)
\* and neither a magenta nor a black one (5); at pitch 2 the white pixel in
\* the last row is sampled and gets no dot.
C22_Witness ==
    /\ grid.done
    /\ grid.raster = Patches
    /\ \/ /\ grid.step = <<4, 1>>
          /\ {<<dot.ch, dot.val>> : dot \in grid.dots} = {<<1, 11>>, <<3, 255>>}
       \/ /\ grid.step = <<2, 1>>
          /\ grid.dots # {}
          /\ DotsAt(12) = {}

\* The scenario: a flat black raster, pitch 4 at scale factor 1, opacity 1.
FlatBlackScenario ==
    /\ grid.done
    /\ grid.raster = Flat(grid.w, grid.h, <<0, 0, 0>>)
    /\ grid.scale = 2 * 4
    /\ grid.scaleFactor = <<1, 1>>
    /\ grid.opacity = 10

\* Every cell of the grid whose sample lies inside the raster has a dot of
\* coverage 255, so of radius step / 1.2, on each of the four layers.
DotsOnEveryCell ==
    /\ \A dot \in grid.dots : dot.val = 255
    /\ \A x, y \in gridLine(diag(grid.w, grid.h), grid.step) :
          (/\ srcOf(x, grid.w, grid.step) \in 0..(grid.w - 1)
           /\ srcOf(y, grid.h, grid.step) \in 0..(grid.h - 1)) =>
              \A ch \in 1..4 : \E dot \in grid.dots :
                  /\ dot.ch = ch
                  /\ dot.x = x + grid.step[2] * grid.w
                  /\ dot.y = y + grid.step[2] * grid.h

FlatBlackDotsOnEveryCell == FlatBlackScenario => DotsOnEveryCell

\* C23: in the scenario every sampled cell has coverage 255 on every ink,
\* every cell inside the raster draws a dot of radius pitch / 1.2 on each of
\* the four layers, and every pixel of the canvas is black, at its centre at
\* least.
C23_FlatBlackStaysBlack ==
    FlatBlackScenario =>
        /\ DotsOnEveryCell
        /\ \A i \in DOMAIN grid.canvas : blackCentre(grid.canvas[i], grid.opacity)

\* The sum of the weights of the taps k.. of a kernel, in lowest terms.
RECURSIVE weightSum(_, _)
weightSum(kernel, k) ==
    IF k > Len(kernel) THEN <<0, 1>>
    ELSE LET f == kernel[k][3]
             rest == weightSum(kernel, k + 1)
         IN Fraction(f[1] * rest[2] + rest[1] * f[2], f[2] * rest[2])

\* C24: the kernel of an error diffusion has 4 taps summing to 1 for floyd,
\* 3 taps summing to 1 for Sierra Lite, and 6 taps of 1/8 each, summing to
\* 6/8, for atkinson.
C24_KernelWeights ==
    (dither.w > 0 /\ dither.params.algorithm \in ErrDiffAlgos) =>
        LET kernel == Kernel(dither.params.algorithm)
        IN /\ dither.params.algorithm = "floyd" =>
                 /\ Len(kernel) = 4
                 /\ \A k \in 1..4 : kernel[k][3][2] = 16
                 /\ weightSum(kernel, 1) = <<1, 1>>
           /\ dither.params.algorithm = "sierra" =>
                 /\ Len(kernel) = 3
                 /\ \A k \in 1..3 : kernel[k][3][2] = 4
                 /\ weightSum(kernel, 1) = <<1, 1>>
           /\ dither.params.algorithm = "atkinson" =>
                 /\ Len(kernel) = 6
                 /\ \A k \in 1..6 : kernel[k][3] = <<1, 8>>
                 /\ weightSum(kernel, 1) = <<3, 4>>

\* The 4 x 4 ramp has been through the Atkinson kernel in grade mode, rgb.
C24_Witness ==
    /\ dither.params.algorithm = "atkinson"
    /\ dither.params.renderMode = "grade"
    /\ dither.params.colorSpace = "rgb"
    /\ dither.params.contrast = 0
    /\ dither.source = Coarse
    /\ dither.passes = 1
    /\ dither.data # dither.source

(***************************************************************************)
(* Both effects, each called on its inputs.                                *)
(***************************************************************************)
SpecEffects ==
    /\ \/ InitDither /\ dither.params \in Offered
       \/ InitGrid
    /\ [][NextDither \/ HalftoneProcess]_vars

\* The call of DitherEffect.process has returned, having processed a working
\* raster of at least 1 x 1.
DitherCompleted ==
    /\ dither.passes >= 1
    /\ ~dither.threw
    /\ dither.ww >= 1
    /\ Len(dither.work) >= dither.ww
    /\ Len(dither.out) = Len(dither.work)
    /\ Len(dither.data) = Len(dither.source)

\* C25: for every algorithm offered, both render modes, every resolution and
\* every raster of at least 1 x 1 the dither effect completes, on a working
\* raster of at least 1 x 1; for every pitch and scale factor the step of
\* the halftone grid is at least 2 and its loops end, after at most diag
\* iterations each.
C25_EffectsTerminate ==
    /\ dither.passes >= 1 => DitherCompleted
    /\ grid.w > 0 =>
          LET st == step(grid.scale, grid.scaleFactor)
          IN /\ st[1] >= 2 * st[2]
             /\ iterationsOf(diag(grid.w, grid.h), st) \in 1..diag(grid.w, grid.h)
             /\ grid.iterations # 0 =>
                   grid.done /\ grid.iterations = iterationsOf(diag(grid.w, grid.h), st)

\* A single pixel at resolution 0.05 (Math.floor(1 * 0.05) is 0, raised to 1)
\* has gone through Sierra Lite in grade mode.
C25_Witness ==
    /\ dither.source = <<<<200, 100, 50, 255>>>>
    /\ dither.params.resolution = 1
    /\ dither.params.algorithm = "sierra"
    /\ dither.params.renderMode = "grade"
    /\ DitherCompleted
    /\ dither.ww = 1

\* The canvas DitherEffect.process leaves for the raster of the last pass
\* when bleeding and roundness are at their defaults and every other
\* parameter is as it is.
WithoutShaping(lumaErr) ==
    ditherProcess(dither.prev, dither.w,
                  [dither.params EXCEPT !.bleeding = 0, !.roundness = 0],
                  [powLow |-> dither.powLow, lumaErr |-> lumaErr]).data

\* C26: the raster the dither effect leaves is the one it leaves with
\* bleeding 0 and roundness 0 and the other parameters unchanged, in every
\* render mode and for every algorithm.
C26_BleedingAndRoundnessInert ==
    (dither.w > 0 /\ dither.passes >= 1) =>
        \E lumaErr \in -1..1 : dither.data = WithoutShaping(lumaErr)

\* The ramp through Bayer 4x4 with bleeding 1 and roundness 1.
C26_Witness ==
    /\ dither.w > 0
    /\ dither.params.bleeding = 10
    /\ dither.params.roundness = 10
    /\ dither.params.algorithm = "bayer4"
    /\ dither.params.resolution = 20
    /\ dither.source = Ramp
    /\ dither.passes = 1
    /\ dither.data # dither.source
    /\ \E lumaErr \in -1..1 : dither.data = WithoutShaping(lumaErr)

\* The rasters the error diffusion of the last pass went through, one per
\* pixel and the final one.
DiffusionTrace(lumaErr) ==
    errDiffTrace(dither.work, 1, dither.ww, dither.params,
                 factorContrast(dither.params.contrast), dither.params.pal,
                 [powLow |-> dither.powLow, lumaErr |-> lumaErr],
                 Kernel(dither.params.algorithm))

\* Pixel q is the target of a tap of the kernel at pixel p: in the column
\* and the row the tap names, both inside the raster.
TapTarget(p, q) ==
    LET x == (p - 1) % dither.ww
        y == (p - 1) \div dither.ww
        kernel == Kernel(dither.params.algorithm)
    IN \E k \in 1..Len(kernel) :
          /\ x + kernel[k][1] \in 0..(dither.ww - 1)
          /\ (y + kernel[k][2]) * dither.ww < Len(dither.work)
          /\ q = (y + kernel[k][2]) * dither.ww + x + kernel[k][1] + 1

\* C27: in an error diffusion the step for pixel p changes, besides p, only
\* pixels that a tap of the kernel names inside the raster, all of them later
\* in raster order; a tap outside the columns or below the last row changes
\* nothing, and a pixel is as the pass leaves it once its own step is done.
C27_ResidualOnlyForward ==
    (dither.w > 0 /\ dither.passes >= 1 /\ dither.params.algorithm \in ErrDiffAlgos) =>
        \A lumaErr \in -1..1 :
            \E tr \in {DiffusionTrace(lumaErr)} :
                \A p \in DOMAIN dither.work :
                    /\ \A q \in DOMAIN dither.work :
                          tr[p + 1][q] # tr[p][q] => q = p \/ (q > p /\ TapTarget(p, q))
                    /\ tr[p + 1][p] = tr[Len(dither.work) + 1][p]
                    /\ \A ch \in 1..4 : tr[p + 1][p][ch] \in 0..255

\* The 4 x 4 ramp through Floyd-Steinberg in grade mode: the fourth pixel
\* (51,51,51), last of its row, maps to (0,0,0); its residual reaches the
\* two pixels below it and not the first pixel of the next row.
C27_Witness ==
    /\ dither.w > 0
    /\ dither.params.algorithm = "floyd"
    /\ dither.params.renderMode = "grade"
    /\ dither.params.resolution = 20
    /\ dither.source = Coarse
    /\ dither.passes = 1
    /\ \E tr \in {DiffusionTrace(0)} :
          /\ tr[17] = dither.out
          /\ tr[5][4] # tr[4][4]
          /\ tr[5][5] = tr[4][5]
          /\ tr[5][7] # tr[4][7]
          /\ tr[5][8] # tr[4][8]

(***************************************************************************)
(* Properties of the video loop and the exporter.                          *)
(***************************************************************************)

\* C28: at most one renderVideo callback is registered for the next video
\* frame at any time.
C28_AtMostOneVideoChain == vfcPending <= 1

\* C29: a call made while a render is in progress changes neither the
\* exporter (isProcessing, the stop flag, the position of the render in
\* progress), the canvas sizes, the video nor the export's record;
\* isProcessing is true exactly while a render is between its start and its
\* end; a render starts only from idle, goes on as the same render, and ends
\* with a blob or a rejection.
C29_OneRenderAtATime ==
    [][/\ (exporter.isProcessing /\ hist'.refused /\ ~hist.refused) =>
             UNCHANGED <<exporter, canvasSize, gpuCanvasSize, videoPaused, vfcPending,
                         exportLog, lastRun>>
       /\ exporter.isProcessing <=> exporter.pos # "idle"
       /\ exporter'.isProcessing <=> exporter'.pos # "idle"
       /\ (~exporter.isProcessing /\ exporter'.isProcessing) =>
             /\ exportLog'.kind = "video"
             /\ exportLog'.result = "running"
             /\ exportLog'.frames = <<>>
       /\ (exporter.isProcessing /\ exporter'.isProcessing) =>
             /\ exporter'.total = exporter.total
             /\ exporter'.format = exporter.format
             /\ exporter'.original = exporter.original
             /\ exporter'.resizeNeeded = exporter.resizeNeeded
             /\ exporter'.frame >= exporter.frame
       /\ (exporter.isProcessing /\ ~exporter'.isProcessing) =>
             exportLog'.result \in {"blob", "rejected"}]_vars

\* A full-resolution render is at its second frame, cancel() has been called
\* and an export button has been pressed since the render began.
C29_Witness ==
    /\ exporter.isProcessing
    /\ hist.refused
    /\ exporter.stopFlag
    /\ exporter.resizeNeeded
    /\ exporter.frame = 1
    /\ canvasSize = "full"
    /\ exportLog.result = "running"

(***************************************************************************)
(* The audio player: AudioProcessor's transport on a decoded buffer.       *)
(* Times are in hundredths of a second, the speed and the time between two *)
(* frames in tenths.                                                       *)
(***************************************************************************)
MaxOffset == 1000

\* stop(): the nodes are stopped, both flags cleared, the position reset.
stop(a) == [a EXCEPT !.isPlaying = FALSE, !.isPaused = FALSE, !.pauseTime = 0]

\* play(): nothing when playing; source.start(0, pauseTime % duration) throws
\* a RangeError for a negative offset (the remainder has the sign of
\* pauseTime), before the flags are set.
play(a) ==
    IF a.isPlaying THEN a
    ELSE IF a.pauseTime < 0 /\ (-a.pauseTime) % a.duration # 0
         THEN [a EXCEPT !.threw = TRUE]
         ELSE [a EXCEPT !.isPlaying = TRUE, !.isPaused = FALSE]

\* restart(): stop and play again, when playing.
restart(a) == IF a.isPlaying THEN play(stop(a)) ELSE a

\* A decoded buffer of 3 or 12 seconds, the PLAYBACK SPEED slider at 0.5, 1
\* or 2, the player rendered and nothing played yet.
InitAudio ==
    /\ Constructed
    /\ dither = IdleDither
    /\ halftone = IdleHalftone
    /\ grid = IdleGrid
    /\ \E d \in {300, 1200}, v \in {5, 10, 20} :
          audio = [IdleAudio EXCEPT !.loaded = TRUE, !.duration = d, !.speed = v]

Play ==
    /\ audio.loaded
    /\ audio' = [play([audio EXCEPT !.threw = FALSE]) EXCEPT !.last = "play"]
    /\ UNCHANGED <<sessionVars, dither, halftone, grid>>

\* pause(): nothing unless playing; the position is the one the frames have
\* accumulated.
Pause ==
    /\ audio.loaded
    /\ audio' = IF ~audio.isPlaying THEN [audio EXCEPT !.threw = FALSE, !.last = "pause"]
                ELSE [audio EXCEPT !.isPlaying = FALSE, !.isPaused = TRUE, !.threw = FALSE,
                                   !.last = "pause"]
    /\ UNCHANGED <<sessionVars, dither, halftone, grid>>

Stop ==
    /\ audio.loaded
    /\ audio' = [stop(audio) EXCEPT !.threw = FALSE, !.last = "stop"]
    /\ UNCHANGED <<sessionVars, dither, halftone, grid>>

\* seek.oninput, seekTo(pct * duration): the range input goes from 0 to 100.
SeekTo(pct) ==
    /\ audio.loaded
    /\ LET time == (pct * audio.duration) \div 100
           stopped == IF audio.isPlaying THEN stop(audio) ELSE audio
           moved == [stopped EXCEPT !.pauseTime = time, !.threw = FALSE]
       IN audio' = [(IF audio.isPlaying THEN play(moved) ELSE moved) EXCEPT !.last = "seekTo"]
    /\ UNCHANGED <<sessionVars, dither, halftone, grid>>

\* rewind.onclick: pauseTime -= 5; restart().
Rewind ==
    /\ audio.loaded
    /\ audio.pauseTime >= -MaxOffset
    /\ audio' = [restart([audio EXCEPT !.pauseTime = @ - 500, !.threw = FALSE])
                   EXCEPT !.last = "rewind"]
    /\ UNCHANGED <<sessionVars, dither, halftone, grid>>

\* forward.onclick: pauseTime += 5; restart().
Forward ==
    /\ audio.loaded
    /\ audio.pauseTime <= audio.duration + MaxOffset
    /\ audio' = [restart([audio EXCEPT !.pauseTime = @ + 500, !.threw = FALSE])
                   EXCEPT !.last = "forward"]
    /\ UNCHANGED <<sessionVars, dither, halftone, grid>>

\* One frame of updatePlayerUI, dt tenths of a second after the last one:
\* while playing the position advances by dt * speed and wraps at the
\* duration (params.loop is never set, so 'loop !== false' holds).
UpdatePlayerUI(dt) ==
    /\ audio.loaded
    /\ LET t == audio.pauseTime + dt * audio.speed
       IN audio' = [audio EXCEPT
             !.pauseTime = IF ~audio.isPlaying THEN @
                           ELSE IF t >= audio.duration THEN t % audio.duration ELSE t,
             !.threw = FALSE,
             !.last = "frame"]
    /\ UNCHANGED <<sessionVars, dither, halftone, grid>>

SpecAudio ==
    /\ InitAudio
    /\ [][\/ Play
          \/ Pause
          \/ Stop
          \/ \E pct \in {0, 50, 100} : SeekTo(pct)
          \/ Rewind
          \/ Forward
          \/ \E dt \in {1, 25} : UpdatePlayerUI(dt)]_vars

\* C30: on a loaded buffer the position stays within [0, duration], isPlaying
\* and isPaused are never both true, and after stop the position is 0 and
\* isPlaying is false.
C30_PlayerInvariants ==
    audio.loaded =>
        /\ 0 <= audio.pauseTime
        /\ audio.pauseTime <= audio.duration
        /\ ~(audio.isPlaying /\ audio.isPaused)
        /\ audio.last = "stop" => (audio.pauseTime = 0 /\ ~audio.isPlaying)

\* The two other parts of C30 by themselves.
PlayerFlagsAndStop ==
    audio.loaded =>
        /\ ~(audio.isPlaying /\ audio.isPaused)
        /\ audio.last = "stop" => (audio.pauseTime = 0 /\ ~audio.isPlaying)

\* The position while the player plays from a position inside the buffer.
PlayingStaysInside ==
    [][(audio.isPlaying /\ 0 <= audio.pauseTime /\ audio.pauseTime <= audio.duration) =>
          (0 <= audio'.pauseTime /\ audio'.pauseTime <= audio'.duration)]_vars

====
